---- MODULE Spec2Model ----
(***************************************************************************)
(* Cash reconciliation (cash_recon.logic.build_cash_recon) as a state      *)
(* machine.  One call of build_cash_recon is a run of the machine: the     *)
(* keyword arguments are the variable args, every local of the function is *)
(* a variable, and each block of the function body is one action (the two  *)
(* matching loops advance one row per action).                             *)
(*                                                                         *)
(* Representation                                                          *)
(*   - str values that the code normalises or searches (store, designer,   *)
(*     service, product_name, pay_method) are sequences of one-character   *)
(*     strings; FW stands for U+3000 (full-width space);                   *)
(*   - other str values (ids, status, names) are TLA+ strings;             *)
(*   - datetime values are integers, in seconds;                           *)
(*   - money amounts are integers (whole currency units), so the code's    *)
(*     0.0001 epsilon comparisons are comparisons for equality;            *)
(*   - Optional[T]: None is <<>>, a value v is <<v>>;                       *)
(*   - list indices are 1-based here and 0-based in the code.              *)
(***************************************************************************)
EXTENDS Integers, Sequences, FiniteSets, TLC

None == <<>>
Some(v) == <<v>>

Abs(n) == IF n < 0 THEN -n ELSE n

Min(a, b) == IF a <= b THEN a ELSE b

RECURSIVE SumSeq(_)
SumSeq(s) == IF s = <<>> THEN 0 ELSE Head(s) + SumSeq(Tail(s))

MapSeq(s, F(_)) == [i \in 1..Len(s) |-> F(s[i])]

\* ------------------------------------------------------------------ str

FW == "FW"
TAB == "\t"

UpperCase == <<"A","B","C","D","E","F","G","H","I","J","K","L","M",
               "N","O","P","Q","R","S","T","U","V","W","X","Y","Z">>
LowerCase == <<"a","b","c","d","e","f","g","h","i","j","k","l","m",
               "n","o","p","q","r","s","t","u","v","w","x","y","z">>

\* str.lower() on one character
LowerChar(c) ==
    IF \E i \in 1..Len(UpperCase) : UpperCase[i] = c
    THEN LowerCase[CHOOSE i \in 1..Len(UpperCase) : UpperCase[i] = c]
    ELSE c

\* str.lower()
Lower(s) == [i \in 1..Len(s) |-> LowerChar(s[i])]

\* str.replace(ch, "") for a one-character ch
RECURSIVE Remove(_, _)
Remove(s, ch) ==
    IF s = <<>> THEN <<>>
    ELSE IF Head(s) = ch THEN Remove(Tail(s), ch)
         ELSE <<Head(s)>> \o Remove(Tail(s), ch)

\* the characters str.strip() removes, among those of the model's alphabet
Whitespace == {" ", FW, TAB}

RECURSIVE LStrip(_)
LStrip(s) ==
    IF s # <<>> /\ Head(s) \in Whitespace THEN LStrip(Tail(s)) ELSE s

RECURSIVE RStrip(_)
RStrip(s) ==
    IF s # <<>> /\ s[Len(s)] \in Whitespace
    THEN RStrip(SubSeq(s, 1, Len(s) - 1))
    ELSE s

\* str.strip()
Strip(s) == RStrip(LStrip(s))

\* `w in s` for str
Contains(s, w) ==
    \E i \in 0..(Len(s) - Len(w)) : SubSeq(s, i + 1, i + Len(w)) = w

\* str.split(",")[0]
RECURSIVE BeforeComma(_)
BeforeComma(s) ==
    IF s = <<>> \/ Head(s) = "," THEN <<>>
    ELSE <<Head(s)>> \o BeforeComma(Tail(s))

\* ------------------------------------------------- helpers of logic.py

\* one-character strings standing for the non-ASCII characters of the source
FEN == "fen"        \* U+5206
ZHONG == "zhong"    \* U+9418
XIN == "xin"        \* U+4FE1
YONG == "yong"      \* U+7528
KA == "ka"          \* U+5361

\* order_status "checked in" (U+5DF2 U+5831 U+5230)
CHECKED_IN == "checked_in"

\* faulty variant of _in_period: the end of the period is excluded
_in_period_open_end(dt, period) == period.start <= dt /\ dt < period.end

_in_period(dt, period) == period.start <= dt /\ dt <= period.end

_normalize_store(value) == Lower(Remove(Remove(value, " "), FW))

_normalize_name(value) == Lower(Remove(Remove(value, " "), FW))

Digits == <<"0","1","2","3","4","5","6","7","8","9">>

IsDigit(c) == \E i \in 1..Len(Digits) : Digits[i] = c

DigitValue(c) == (CHOOSE i \in 1..Len(Digits) : Digits[i] = c) - 1

RECURSIVE DecimalValue(_)
DecimalValue(s) ==
    IF s = <<>> THEN 0
    ELSE 10 * DecimalValue(SubSeq(s, 1, Len(s) - 1)) + DigitValue(s[Len(s)])

\* int(str) inside try/except: the value, or None when int() raises
IntOrNone(s) ==
    IF s # <<>> /\ \A i \in 1..Len(s) : IsDigit(s[i])
    THEN Some(DecimalValue(s))
    ELSE None

\* The pattern of re.search in _extract_minutes is the raw string
\*   (\\d+)\\s*<FEN><ZHONG>
\* in which \\ is an escaped backslash: group 1 is a backslash followed by one
\* or more letters d, then a backslash, any number of letters s, FEN, ZHONG.
\* MinutesMatch(text, i, n, k): such a match starts at i with n d's and k s's.
MinutesMatch(text, i, n, k) ==
    /\ i + n + k + 3 <= Len(text)
    /\ text[i] = "\\"
    /\ \A j \in 1..n : text[i + j] = "d"
    /\ text[i + n + 1] = "\\"
    /\ \A j \in 1..k : text[i + n + 1 + j] = "s"
    /\ text[i + n + k + 2] = FEN
    /\ text[i + n + k + 3] = ZHONG

_extract_minutes(text) ==
    IF text = <<>> THEN None
    ELSE LET L == Len(text)
             hits == {m \in (1..L) \X (1..L) \X (0..L) :
                         MinutesMatch(text, m[1], m[2], m[3])}
         IN IF hits = {} THEN None
            ELSE LET m == CHOOSE h \in hits :
                              \A g \in hits :
                                  \/ h[1] < g[1]
                                  \/ (h[1] = g[1] /\ h[2] >= g[2])
                 IN IntOrNone(SubSeq(text, m[1], m[1] + m[2]))

_parse_pos_designer(product_name) ==
    IF product_name = <<>> THEN <<>> ELSE Strip(BeforeComma(product_name))

CREDIT_CARD == "credit_card"
LINEPAY == "linepay"

_normalize_pay_method_credit_first(text) ==
    LET t == Lower(Remove(Remove(text, " "), "_"))
    IN IF \/ Contains(text, <<XIN, YONG, KA>>)
          \/ Contains(t, <<"c","r","e","d","i","t">>)
          \/ Contains(t, <<"c","a","r","d">>)
       THEN CREDIT_CARD
       ELSE IF Contains(t, <<"l","i","n","e","p","a","y">>) THEN LINEPAY
       ELSE IF Contains(t, <<"l","i","n","e">>) /\ Contains(t, <<"p","a","y">>)
            THEN LINEPAY
       ELSE ""

_normalize_pay_method(text) ==
    LET t == Lower(Remove(Remove(text, " "), "_"))
    IN IF Contains(t, <<"l","i","n","e","p","a","y">>) THEN LINEPAY
       ELSE IF Contains(t, <<"l","i","n","e">>) /\ Contains(t, <<"p","a","y">>)
            THEN LINEPAY
       ELSE IF \/ Contains(text, <<XIN, YONG, KA>>)
               \/ Contains(t, <<"c","r","e","d","i","t">>)
               \/ Contains(t, <<"c","a","r","d">>)
            THEN CREDIT_CARD
       ELSE ""

\* abs(timedelta.total_seconds() / 60) compared with a whole number of minutes
SECONDS_PER_MINUTE == 60

\* abs((a - b).total_seconds()), the numerator of the code's diff
AbsSeconds(a, b) == Abs(a - b)

\* diff <= time_tolerance_minutes, diff being seconds / 60
WithinTolerance(seconds, minutes) == seconds <= minutes * SECONDS_PER_MINUTE

\* int(diff)
WholeMinutes(seconds) == seconds \div SECONDS_PER_MINUTE

\* ------------------------------------------------------- the state

VARIABLES
    pc,                     \* the block of build_cash_recon about to run
    args,                   \* the keyword arguments of the call
    store_norm, scoped_orders,
    missing_bills, bill_ids_in_scope,
    service_bill_rows, topup_bill_rows,
    hotcake_service_cash, hotcake_topup_cash, hotcake_cash_total,
    bill_cash_map,
    pos_cash_total, pos_cash_diff, scoped_pos,
    card_machine_total, scoped_card,
    card_matches, card_mismatches,
    hotcake_card_candidates, used_hotcake,
    card_i,                 \* position of `for card in scoped_card`
    hotcake_time_mismatches, pos_time_mismatches,
    pos_candidates, used_pos,
    order_i,                \* position of `for o in scoped_orders`
    result,                 \* the returned CashReconResult, None before return
    earlier_call            \* history: arguments and result of one earlier call,
                            \* and whether a call of other arguments followed it

scopeVars == <<store_norm, scoped_orders, missing_bills, bill_ids_in_scope,
               service_bill_rows, topup_bill_rows>>

totalVars == <<hotcake_service_cash, hotcake_topup_cash, hotcake_cash_total,
               bill_cash_map, pos_cash_total, pos_cash_diff, scoped_pos,
               card_machine_total, scoped_card>>

cardVars == <<card_matches, card_mismatches, hotcake_card_candidates,
              used_hotcake, card_i>>

cashVars == <<hotcake_time_mismatches, pos_time_mismatches, pos_candidates,
              used_pos, order_i>>

vars == <<pc, args, scopeVars, totalVars, cardVars, cashVars, result,
          earlier_call>>

\* ------------------------------------------- scoping (lines 91 to 158)

\* scoped_orders: the list comprehension of lines 92-94
RECURSIVE ScopedOrders(_, _, _)
ScopedOrders(orders, norm, period) ==
    IF orders = <<>> THEN <<>>
    ELSE LET o == Head(orders)
             rest == ScopedOrders(Tail(orders), norm, period)
         IN IF _normalize_store(o.store) = norm
               /\ _in_period(o.service_start, period)
            THEN <<o>> \o rest
            ELSE rest

MissingBillRow(o) ==
    [store |-> o.store, order_id |-> o.order_id, order_code |-> o.order_code,
     service_start |-> o.service_start, designer |-> o.designer,
     service |-> o.service, order_status |-> o.order_status,
     checkin_time |-> o.checkin_time, member_name |-> o.member_name,
     phone |-> o.phone]

\* faulty variant of IsMissingBill: the bill amount is not looked at
IsMissingBill_any_amount(o) ==
    o.order_status = CHECKED_IN /\ o.bill_id = ""

\* the condition of line 99
IsMissingBill(o) ==
    o.order_status = CHECKED_IN /\ o.bill_id = "" /\ o.bill_amount = 0

\* the loop of lines 98-115 from position i on, acc = [missing, ids]
RECURSIVE MissingBillsLoop(_, _, _)
MissingBillsLoop(scoped, i, acc) ==
    IF i > Len(scoped) THEN acc
    ELSE LET o == scoped[i]
             missing == IF IsMissingBill(o)
                        THEN Append(acc.missing, MissingBillRow(o))
                        ELSE acc.missing
             ids == IF o.bill_id # "" THEN acc.ids \cup {o.bill_id}
                    ELSE acc.ids
         IN MissingBillsLoop(scoped, i + 1, [missing |-> missing, ids |-> ids])

\* ServiceBillRow(...) and TopUpBillRow(...): a copy of the bill row's fields
BillRowCopy(r) ==
    [store |-> r.store, bill_id |-> r.bill_id,
     settlement_time |-> r.settlement_time,
     attributed_date |-> r.attributed_date, designer |-> r.designer,
     item |-> r.item, cash |-> r.cash, credit_card |-> r.credit_card,
     linepay |-> r.linepay, bill_amount |-> r.bill_amount]

\* faulty variant of ServiceLoop: every service bill row is kept
ServiceLoop_all(service, ids) == MapSeq(service, BillRowCopy)

\* faulty variant of ServiceLoop: only the first row of a bill is kept
RECURSIVE ServiceLoop_first(_, _)
ServiceLoop_first(service, ids) ==
    IF service = <<>> THEN <<>>
    ELSE LET r == Head(service)
         IN IF r.bill_id \notin ids THEN ServiceLoop_first(Tail(service), ids)
            ELSE <<BillRowCopy(r)>>
                 \o ServiceLoop_first(Tail(service), ids \ {r.bill_id})

\* the loop of lines 119-135
RECURSIVE ServiceLoop(_, _)
ServiceLoop(service, ids) ==
    IF service = <<>> THEN <<>>
    ELSE LET r == Head(service)
             rest == ServiceLoop(Tail(service), ids)
         IN IF r.bill_id \notin ids THEN rest
            ELSE <<BillRowCopy(r)>> \o rest

\* lines 117-135
ServiceBillRows(service, ids) ==
    IF ids # {} THEN ServiceLoop(service, ids) ELSE <<>>

\* the loop of lines 140-158
RECURSIVE TopUpLoop(_, _, _)
TopUpLoop(topup, norm, period) ==
    IF topup = <<>> THEN <<>>
    ELSE LET r == Head(topup)
             rest == TopUpLoop(Tail(topup), norm, period)
         IN IF _normalize_store(r.store) # norm THEN rest
            ELSE IF ~ _in_period(r.settlement_time, period) THEN rest
            ELSE <<BillRowCopy(r)>> \o rest

\* faulty variant of TopUpBillRows: topup_mode is not looked at
TopUpBillRows_any_mode(topup, norm, period, topup_mode) ==
    TopUpLoop(topup, norm, period)

\* lines 138-158
TopUpBillRows(topup, norm, period, topup_mode) ==
    IF topup_mode # "exclude" THEN TopUpLoop(topup, norm, period) ELSE <<>>

\* ------------------------------------------- totals (lines 160 to 187)

RowCash(r) == r.cash

\* sum(r.cash for r in rows)
SumCash(rows) == SumSeq(MapSeq(rows, RowCash))

\* lines 165-167: a dict, as a function on the bill ids it holds
RECURSIVE BillCashMap(_)
BillCashMap(rows) ==
    IF rows = <<>> THEN <<>>
    ELSE LET r == rows[Len(rows)]
             m == BillCashMap(SubSeq(rows, 1, Len(rows) - 1))
             old == IF r.bill_id \in DOMAIN m THEN m[r.bill_id] ELSE 0
         IN [k \in DOMAIN m \cup {r.bill_id} |->
                IF k = r.bill_id THEN old + r.cash ELSE m[k]]

\* bill_cash_map.get(bill_id, 0.0)
MapGet(m, bill_id) == IF bill_id \in DOMAIN m THEN m[bill_id] ELSE 0

\* line 172
RECURSIVE ScopedPos(_, _)
ScopedPos(pos, period) ==
    IF pos = <<>> THEN <<>>
    ELSE LET rest == ScopedPos(Tail(pos), period)
         IN IF _in_period(Head(pos).created_time, period)
            THEN <<Head(pos)>> \o rest
            ELSE rest

RowCashPaid(p) == p.cash_paid

\* line 173
PosCashTotal(scoped) == SumSeq(MapSeq(scoped, RowCashPaid))

\* faulty variant of PosCashDiff: the magnitude of the difference
PosCashDiff_abs(pos_total, hotcake_total) == Abs(pos_total - hotcake_total)

\* line 174
PosCashDiff(pos_total, hotcake_total) == pos_total - hotcake_total

\* faulty variant of ScopedCard: the store of the row is not looked at
RECURSIVE ScopedCard_any_store(_, _, _)
ScopedCard_any_store(rows, norm, period) ==
    IF rows = <<>> THEN <<>>
    ELSE LET r == Head(rows)
             rest == ScopedCard_any_store(Tail(rows), norm, period)
         IN IF _in_period(r.transaction_time, period)
            THEN <<r>> \o rest
            ELSE rest

\* lines 182-186
RECURSIVE ScopedCard(_, _, _)
ScopedCard(rows, norm, period) ==
    IF rows = <<>> THEN <<>>
    ELSE LET r == Head(rows)
             rest == ScopedCard(Tail(rows), norm, period)
         IN IF _normalize_store(r.store) = norm
               /\ _in_period(r.transaction_time, period)
            THEN <<r>> \o rest
            ELSE rest

RowPaidAmount(r) == r.paid_amount

\* line 187
CardMachineTotal(scoped) == SumSeq(MapSeq(scoped, RowPaidAmount))

\* faulty variant of PosTotals: `if pos_orders:` for `is not None`, so that an
\* empty list counts as not supplied
PosTotals_truthy(pos_orders, period, hotcake_total) ==
    IF pos_orders # None /\ pos_orders[1] # <<>>
    THEN LET scoped == ScopedPos(pos_orders[1], period)
             total == PosCashTotal(scoped)
         IN [scoped_pos |-> scoped, pos_cash_total |-> Some(total),
             pos_cash_diff |-> Some(PosCashDiff(total, hotcake_total))]
    ELSE [scoped_pos |-> <<>>, pos_cash_total |-> None,
          pos_cash_diff |-> None]

\* lines 169-176: scoped_pos, pos_cash_total and pos_cash_diff
PosTotals(pos_orders, period, hotcake_total) ==
    IF pos_orders # None
    THEN LET scoped == ScopedPos(pos_orders[1], period)
             total == PosCashTotal(scoped)
         IN [scoped_pos |-> scoped, pos_cash_total |-> Some(total),
             pos_cash_diff |-> Some(PosCashDiff(total, hotcake_total))]
    ELSE [scoped_pos |-> <<>>, pos_cash_total |-> None,
          pos_cash_diff |-> None]

\* lines 179-187: scoped_card and card_machine_total
CardTotals(card_machine_rows, norm, period) ==
    IF card_machine_rows # None
    THEN LET scoped == ScopedCard(card_machine_rows[1], norm, period)
         IN [scoped_card |-> scoped,
             card_machine_total |-> Some(CardMachineTotal(scoped))]
    ELSE [scoped_card |-> <<>>, card_machine_total |-> None]

\* --------------------------------------- card pass (lines 189 to 295)

CardCandidate(r, pay_type, amount) ==
    [bill_id |-> r.bill_id, pay_type |-> pay_type, amount |-> amount,
     time |-> r.settlement_time]

\* faulty variant of HotcakeCardCandidates: a LINE Pay amount of zero is a
\* candidate too
RECURSIVE HotcakeCardCandidates_zero(_)
HotcakeCardCandidates_zero(rows) ==
    IF rows = <<>> THEN <<>>
    ELSE LET r == Head(rows)
             credit == IF r.credit_card > 0
                       THEN <<CardCandidate(r, CREDIT_CARD, r.credit_card)>>
                       ELSE <<>>
             line == IF r.linepay >= 0
                     THEN <<CardCandidate(r, LINEPAY, r.linepay)>>
                     ELSE <<>>
         IN credit \o line \o HotcakeCardCandidates_zero(Tail(rows))

\* the loop of lines 194-212
RECURSIVE HotcakeCardCandidates(_)
HotcakeCardCandidates(rows) ==
    IF rows = <<>> THEN <<>>
    ELSE LET r == Head(rows)
             credit == IF r.credit_card > 0
                       THEN <<CardCandidate(r, CREDIT_CARD, r.credit_card)>>
                       ELSE <<>>
             line == IF r.linepay > 0
                     THEN <<CardCandidate(r, LINEPAY, r.linepay)>>
                     ELSE <<>>
         IN credit \o line \o HotcakeCardCandidates(Tail(rows))

\* line 214
NewUsedHotcake == {}

\* the state of the search before the loop of lines 237-250
CardScanStart ==
    [best_idx |-> None, best_diff |-> None,
     nearest_time |-> None, nearest_diff |-> None]

\* the skips of a search that forgets which candidates are used
CardSkips_reuse(idx, h, used, pay_type, card) ==
    \/ h.pay_type # pay_type
    \/ h.amount # card.paid_amount

\* lines 238-243: the candidates the loop skips
CardSkips(idx, h, used, pay_type, card) ==
    \/ idx \in used
    \/ h.pay_type # pay_type
    \/ h.amount # card.paid_amount

\* the loop of lines 237-250 from position idx on; diffs are in seconds
RECURSIVE CardScan(_, _, _, _, _, _)
CardScan(cands, idx, used, pay_type, card, acc) ==
    IF idx > Len(cands) THEN acc
    ELSE LET h == cands[idx]
             diff == AbsSeconds(card.transaction_time, h.time)
             nearer == acc.nearest_diff = None \/ diff < acc.nearest_diff[1]
             better == acc.best_diff = None \/ diff < acc.best_diff[1]
         IN IF CardSkips(idx, h, used, pay_type, card)
            THEN CardScan(cands, idx + 1, used, pay_type, card, acc)
            ELSE CardScan(cands, idx + 1, used, pay_type, card,
                    [best_idx |-> IF better THEN Some(idx) ELSE acc.best_idx,
                     best_diff |-> IF better THEN Some(diff) ELSE acc.best_diff,
                     nearest_time |-> IF nearer THEN Some(h.time)
                                      ELSE acc.nearest_time,
                     nearest_diff |-> IF nearer THEN Some(diff)
                                      ELSE acc.nearest_diff])

\* faulty variant of CardAccepts: the best candidate is taken however far
CardAccepts_any(scan, tolerance) ==
    /\ scan.best_idx # None
    /\ scan.best_diff # None

\* the condition of line 252
CardAccepts(scan, tolerance) ==
    /\ scan.best_idx # None
    /\ scan.best_diff # None
    /\ WithinTolerance(scan.best_diff[1], tolerance)

CardMatchRow(store, h, pay_type, card, best_diff) ==
    [store |-> store, bill_id |-> h.bill_id, pay_type |-> pay_type,
     hotcake_amount |-> h.amount, hotcake_time |-> h.time,
     card_amount |-> card.paid_amount, card_time |-> card.transaction_time,
     time_diff_minutes |-> WholeMinutes(best_diff)]

CardMismatchRow(source, store, pay_type, amount, time, bill_id,
                nearest_time, nearest_diff) ==
    [source |-> source, store |-> store, pay_type |-> pay_type,
     amount |-> amount, time |-> time, bill_id |-> bill_id,
     nearest_time |-> nearest_time,
     nearest_diff_minutes |-> IF nearest_diff = None THEN None
                              ELSE Some(WholeMinutes(nearest_diff[1]))]

\* faulty variant of UnrecognisedCardRow: a row of the Hotcake side
UnrecognisedCardRow_hotcake(card) ==
    CardMismatchRow("hotcake", card.store, card.pay_method, card.paid_amount,
                    card.transaction_time, "", None, None)

\* lines 219-230: the row of a card whose pay method is not recognised; its
\* pay_type is the card's own pay_method text
UnrecognisedCardRow(card) ==
    CardMismatchRow("card", card.store, card.pay_method, card.paid_amount,
                    card.transaction_time, "", None, None)

\* lines 268-279
UnmatchedCardRow(card, pay_type, scan) ==
    CardMismatchRow("card", card.store, pay_type, card.paid_amount,
                    card.transaction_time, "", scan.nearest_time,
                    scan.nearest_diff)

\* the loop of lines 281-295 from position idx on
RECURSIVE HotcakeLeftovers(_, _, _, _)
HotcakeLeftovers(cands, idx, used, store) ==
    IF idx > Len(cands) THEN <<>>
    ELSE LET h == cands[idx]
             rest == HotcakeLeftovers(cands, idx + 1, used, store)
         IN IF idx \in used THEN rest
            ELSE <<CardMismatchRow("hotcake", store, h.pay_type, h.amount,
                                   h.time, h.bill_id, None, None)>> \o rest

\* --------------------------------------- cash pass (lines 297 to 416)

DESIGNER_MISSING == "designer_missing"   \* the reason of line 331
TIME_OR_AMOUNT == "time_or_amount"       \* the reason of lines 383 and 414

\* lines 304-311
PosCandidate(p) ==
    [row |-> p,
     designer_norm |-> _normalize_name(_parse_pos_designer(p.product_name)),
     minutes |-> _extract_minutes(p.product_name)]

\* the loop of lines 303-311
PosCandidates(scoped) == MapSeq(scoped, PosCandidate)

\* a consumption set shared with the card pass
NewUsedPos_hotcake == used_hotcake

\* a consumption set that is kept from the call before
NewUsedPos_kept == used_pos

\* line 312
NewUsedPos == {}

\* the state of the search before the loop of lines 342-357
CashScanStart ==
    [best_idx |-> None, best_diff |-> None, best_cash_match |-> None,
     nearest_diff |-> None, nearest_time |-> None, nearest_cash |-> None]

\* faulty variant of CashSkips: a POS row already used is a candidate again
CashSkips_reuse(idx, p, used, designer_norm, minutes) ==
    \/ (designer_norm # <<>> /\ designer_norm # p.designer_norm)
    \/ (minutes # None /\ p.minutes # None /\ minutes # p.minutes)

\* lines 343-348: the candidates the loop skips
CashSkips(idx, p, used, designer_norm, minutes) ==
    \/ idx \in used
    \/ (designer_norm # <<>> /\ designer_norm # p.designer_norm)
    \/ (minutes # None /\ p.minutes # None /\ minutes # p.minutes)

\* faulty variant of CashScan: of two candidates as near the later one wins
RECURSIVE CashScan_last(_, _, _, _, _, _, _)
CashScan_last(cands, idx, used, designer_norm, minutes, o, acc) ==
    IF idx > Len(cands) THEN acc
    ELSE LET p == cands[idx]
             diff == AbsSeconds(p.row.created_time, o.service_start)
             nearer == acc.nearest_diff = None \/ diff <= acc.nearest_diff[1]
             better == acc.best_diff = None \/ diff <= acc.best_diff[1]
         IN IF CashSkips(idx, p, used, designer_norm, minutes)
            THEN CashScan_last(cands, idx + 1, used, designer_norm, minutes, o,
                               acc)
            ELSE CashScan_last(cands, idx + 1, used, designer_norm, minutes, o,
                    [best_idx |-> IF better THEN Some(idx) ELSE acc.best_idx,
                     best_diff |-> IF better THEN Some(diff) ELSE acc.best_diff,
                     best_cash_match |-> IF better THEN Some(p.row.cash_paid)
                                         ELSE acc.best_cash_match,
                     nearest_diff |-> IF nearer THEN Some(diff)
                                      ELSE acc.nearest_diff,
                     nearest_time |-> IF nearer THEN Some(p.row.created_time)
                                      ELSE acc.nearest_time,
                     nearest_cash |-> IF nearer THEN Some(p.row.cash_paid)
                                      ELSE acc.nearest_cash])

\* the loop of lines 342-357 from position idx on; diffs are in seconds
RECURSIVE CashScan(_, _, _, _, _, _, _)
CashScan(cands, idx, used, designer_norm, minutes, o, acc) ==
    IF idx > Len(cands) THEN acc
    ELSE LET p == cands[idx]
             diff == AbsSeconds(p.row.created_time, o.service_start)
             nearer == acc.nearest_diff = None \/ diff < acc.nearest_diff[1]
             better == acc.best_diff = None \/ diff < acc.best_diff[1]
         IN IF CashSkips(idx, p, used, designer_norm, minutes)
            THEN CashScan(cands, idx + 1, used, designer_norm, minutes, o, acc)
            ELSE CashScan(cands, idx + 1, used, designer_norm, minutes, o,
                    [best_idx |-> IF better THEN Some(idx) ELSE acc.best_idx,
                     best_diff |-> IF better THEN Some(diff) ELSE acc.best_diff,
                     best_cash_match |-> IF better THEN Some(p.row.cash_paid)
                                         ELSE acc.best_cash_match,
                     nearest_diff |-> IF nearer THEN Some(diff)
                                      ELSE acc.nearest_diff,
                     nearest_time |-> IF nearer THEN Some(p.row.created_time)
                                      ELSE acc.nearest_time,
                     nearest_cash |-> IF nearer THEN Some(p.row.cash_paid)
                                      ELSE acc.nearest_cash])

\* faulty variant of CashAccepts: a distance equal to the tolerance is refused
CashAccepts_strict(scan, hotcake_cash, tolerance) ==
    /\ scan.best_idx # None
    /\ scan.best_diff # None
    /\ scan.best_diff[1] < tolerance * SECONDS_PER_MINUTE
    /\ scan.best_cash_match # None
    /\ scan.best_cash_match[1] = hotcake_cash

\* the condition of lines 360-366
CashAccepts(scan, hotcake_cash, tolerance) ==
    /\ scan.best_idx # None
    /\ scan.best_diff # None
    /\ WithinTolerance(scan.best_diff[1], tolerance)
    /\ scan.best_cash_match # None
    /\ scan.best_cash_match[1] = hotcake_cash

HotcakeTimeMismatchRow(o, minutes, cash, cash_diff, nearest_pos_time,
                       nearest_diff, reason) ==
    [store |-> o.store, service_start |-> o.service_start,
     designer |-> o.designer, service |-> o.service, minutes |-> minutes,
     bill_id |-> o.bill_id, bill_amount |-> o.bill_amount, cash |-> cash,
     cash_diff |-> cash_diff, nearest_pos_time |-> nearest_pos_time,
     nearest_diff_minutes |-> IF nearest_diff = None THEN None
                              ELSE Some(WholeMinutes(nearest_diff[1])),
     reason |-> reason]

\* faulty variant of DesignerMissingRow: the generic reason
DesignerMissingRow_generic(o, minutes, cash_map) ==
    HotcakeTimeMismatchRow(o, minutes, MapGet(cash_map, o.bill_id), None,
                           None, None, TIME_OR_AMOUNT)

\* lines 318-333
DesignerMissingRow(o, minutes, cash_map) ==
    HotcakeTimeMismatchRow(o, minutes, MapGet(cash_map, o.bill_id), None,
                           None, None, DESIGNER_MISSING)

\* lines 370-385
UnmatchedOrderRow(o, minutes, hotcake_cash, scan) ==
    HotcakeTimeMismatchRow(o, minutes, hotcake_cash,
        IF scan.nearest_cash # None
        THEN Some(scan.nearest_cash[1] - hotcake_cash) ELSE None,
        scan.nearest_time, scan.nearest_diff, TIME_OR_AMOUNT)

\* the state of the search before the loop of lines 395-402
NearestOrderStart ==
    [nearest_diff |-> None, nearest_time |-> None, nearest_cash |-> None]

\* the loop of lines 395-402 from position i on
RECURSIVE NearestOrder(_, _, _, _, _)
NearestOrder(scoped, i, p, cash_map, acc) ==
    IF i > Len(scoped) THEN acc
    ELSE LET o == scoped[i]
             diff == AbsSeconds(p.row.created_time, o.service_start)
         IN IF _normalize_name(o.designer) # p.designer_norm
            THEN NearestOrder(scoped, i + 1, p, cash_map, acc)
            ELSE IF acc.nearest_diff = None \/ diff < acc.nearest_diff[1]
            THEN NearestOrder(scoped, i + 1, p, cash_map,
                    [nearest_diff |-> Some(diff),
                     nearest_time |-> Some(o.service_start),
                     nearest_cash |-> Some(MapGet(cash_map, o.bill_id))])
            ELSE NearestOrder(scoped, i + 1, p, cash_map, acc)

\* lines 403-416
PosTimeMismatchRow(p, near) ==
    [terminal_name |-> p.row.terminal_name,
     created_time |-> p.row.created_time,
     designer |-> _parse_pos_designer(p.row.product_name),
     product_name |-> p.row.product_name, minutes |-> p.minutes,
     cash_paid |-> p.row.cash_paid,
     cash_diff |-> IF near.nearest_cash # None
                   THEN Some(p.row.cash_paid - near.nearest_cash[1])
                   ELSE None,
     nearest_hotcake_time |-> near.nearest_time,
     nearest_diff_minutes |-> IF near.nearest_diff = None THEN None
                              ELSE Some(WholeMinutes(near.nearest_diff[1])),
     reason |-> TIME_OR_AMOUNT]

\* faulty variant of PosLeftoverRows: the consumed rows are emitted too
PosLeftoverRows_all(cands, idx, used, scoped, cash_map) ==
    [i \in 1..Len(cands) |->
        PosTimeMismatchRow(cands[i],
            NearestOrder(scoped, 1, cands[i], cash_map, NearestOrderStart))]

\* faulty variant of PosLeftoverRows: a row of a designer without an order
\* in scope is dropped
RECURSIVE PosLeftoverRows_known(_, _, _, _, _)
PosLeftoverRows_known(cands, idx, used, scoped, cash_map) ==
    IF idx > Len(cands) THEN <<>>
    ELSE LET p == cands[idx]
             near == NearestOrder(scoped, 1, p, cash_map, NearestOrderStart)
             rest == PosLeftoverRows_known(cands, idx + 1, used, scoped,
                                           cash_map)
         IN IF idx \in used \/ near.nearest_time = None THEN rest
            ELSE <<PosTimeMismatchRow(p, near)>> \o rest

\* the loop of lines 387-416 from position idx on
RECURSIVE PosLeftoverRows(_, _, _, _, _)
PosLeftoverRows(cands, idx, used, scoped, cash_map) ==
    IF idx > Len(cands) THEN <<>>
    ELSE LET p == cands[idx]
             rest == PosLeftoverRows(cands, idx + 1, used, scoped, cash_map)
         IN IF idx \in used THEN rest
            ELSE <<PosTimeMismatchRow(p,
                       NearestOrder(scoped, 1, p, cash_map, NearestOrderStart))>>
                 \o rest

\* ------------------------------------------------------- the actions

\* lines 91-94
ScopeOrders ==
    /\ pc = "scope_orders"
    /\ store_norm' = _normalize_store(args.store)
    /\ scoped_orders' = ScopedOrders(args.orders, store_norm', args.period)
    /\ pc' = "missing_bills"
    /\ UNCHANGED <<args, missing_bills, bill_ids_in_scope, service_bill_rows,
                   topup_bill_rows, totalVars, cardVars, cashVars, result,
                   earlier_call>>

\* lines 96-115
DetectMissingBills ==
    /\ pc = "missing_bills"
    /\ LET out == MissingBillsLoop(scoped_orders, 1,
                                   [missing |-> <<>>, ids |-> {}])
       IN /\ missing_bills' = out.missing
          /\ bill_ids_in_scope' = out.ids
    /\ pc' = "service_bills"
    /\ UNCHANGED <<args, store_norm, scoped_orders, service_bill_rows,
                   topup_bill_rows, totalVars, cardVars, cashVars, result,
                   earlier_call>>

\* lines 117-135
SelectServiceBills ==
    /\ pc = "service_bills"
    /\ service_bill_rows' = ServiceBillRows(args.bills.service,
                                            bill_ids_in_scope)
    /\ pc' = "topup_bills"
    /\ UNCHANGED <<args, store_norm, scoped_orders, missing_bills,
                   bill_ids_in_scope, topup_bill_rows, totalVars, cardVars,
                   cashVars, result, earlier_call>>

\* lines 137-158
SelectTopUpBills ==
    /\ pc = "topup_bills"
    /\ topup_bill_rows' = TopUpBillRows(args.bills.topup, store_norm,
                                        args.period, args.topup_mode)
    /\ pc' = "totals"
    /\ UNCHANGED <<args, store_norm, scoped_orders, missing_bills,
                   bill_ids_in_scope, service_bill_rows, totalVars, cardVars,
                   cashVars, result, earlier_call>>

\* lines 160-187
ComputeTotals ==
    /\ pc = "totals"
    /\ hotcake_service_cash' = SumCash(service_bill_rows)
    /\ hotcake_topup_cash' = SumCash(topup_bill_rows)
    /\ hotcake_cash_total' = hotcake_service_cash' + hotcake_topup_cash'
    /\ bill_cash_map' = BillCashMap(service_bill_rows)
    /\ LET pos == PosTotals(args.pos_orders, args.period, hotcake_cash_total')
       IN /\ scoped_pos' = pos.scoped_pos
          /\ pos_cash_total' = pos.pos_cash_total
          /\ pos_cash_diff' = pos.pos_cash_diff
    /\ LET card == CardTotals(args.card_machine_rows, store_norm, args.period)
       IN /\ scoped_card' = card.scoped_card
          /\ card_machine_total' = card.card_machine_total
    /\ pc' = "card_begin"
    /\ UNCHANGED <<args, scopeVars, cardVars, cashVars, result, earlier_call>>

\* lines 189-214
BeginCardPass ==
    /\ pc = "card_begin"
    /\ card_matches' = <<>>
    /\ card_mismatches' = <<>>
    /\ IF scoped_card # <<>>
       THEN /\ hotcake_card_candidates' =
                   HotcakeCardCandidates(service_bill_rows)
            /\ used_hotcake' = NewUsedHotcake
            /\ card_i' = 1
            /\ pc' = "card_loop"
       ELSE /\ UNCHANGED <<hotcake_card_candidates, used_hotcake, card_i>>
            /\ pc' = "cash_begin"
    /\ UNCHANGED <<args, scopeVars, totalVars, cashVars, result, earlier_call>>

\* one iteration of the loop of lines 216-279
CardStep ==
    /\ pc = "card_loop"
    /\ card_i <= Len(scoped_card)
    /\ LET card == scoped_card[card_i]
           pay_type == _normalize_pay_method(card.pay_method)
           scan == CardScan(hotcake_card_candidates, 1, used_hotcake,
                            pay_type, card, CardScanStart)
       IN IF pay_type \notin {CREDIT_CARD, LINEPAY}
          THEN /\ card_mismatches' =
                      Append(card_mismatches, UnrecognisedCardRow(card))
               /\ UNCHANGED <<card_matches, used_hotcake>>
          ELSE IF CardAccepts(scan, args.time_tolerance_minutes)
          THEN /\ used_hotcake' = used_hotcake \cup {scan.best_idx[1]}
               /\ card_matches' =
                      Append(card_matches,
                             CardMatchRow(args.store,
                                 hotcake_card_candidates[scan.best_idx[1]],
                                 pay_type, card, scan.best_diff[1]))
               /\ UNCHANGED card_mismatches
          ELSE /\ card_mismatches' =
                      Append(card_mismatches,
                             UnmatchedCardRow(card, pay_type, scan))
               /\ UNCHANGED <<card_matches, used_hotcake>>
    /\ card_i' = card_i + 1
    /\ UNCHANGED <<pc, args, scopeVars, totalVars, hotcake_card_candidates,
                   cashVars, result, earlier_call>>

\* lines 281-295
CardLeftovers ==
    /\ pc = "card_loop"
    /\ card_i > Len(scoped_card)
    /\ card_mismatches' =
           card_mismatches \o HotcakeLeftovers(hotcake_card_candidates, 1,
                                               used_hotcake, args.store)
    /\ pc' = "cash_begin"
    /\ UNCHANGED <<args, scopeVars, totalVars, card_matches,
                   hotcake_card_candidates, used_hotcake, card_i, cashVars,
                   result, earlier_call>>

\* lines 297-312
BeginCashPass ==
    /\ pc = "cash_begin"
    /\ hotcake_time_mismatches' = <<>>
    /\ pos_time_mismatches' = <<>>
    /\ IF scoped_pos # <<>>
       THEN /\ pos_candidates' = PosCandidates(scoped_pos)
            /\ used_pos' = NewUsedPos
            /\ order_i' = 1
            /\ pc' = "cash_loop"
       ELSE /\ UNCHANGED <<pos_candidates, used_pos, order_i>>
            /\ pc' = "return"
    /\ UNCHANGED <<args, scopeVars, totalVars, cardVars, result, earlier_call>>

\* one iteration of the loop of lines 314-385
CashStep ==
    /\ pc = "cash_loop"
    /\ order_i <= Len(scoped_orders)
    /\ LET o == scoped_orders[order_i]
           designer_norm == _normalize_name(o.designer)
           minutes == _extract_minutes(o.service)
           scan == CashScan(pos_candidates, 1, used_pos, designer_norm,
                            minutes, o, CashScanStart)
           hotcake_cash == MapGet(bill_cash_map, o.bill_id)
       IN IF designer_norm = <<>>
          THEN /\ hotcake_time_mismatches' =
                      Append(hotcake_time_mismatches,
                             DesignerMissingRow(o, minutes, bill_cash_map))
               /\ UNCHANGED used_pos
          ELSE IF CashAccepts(scan, hotcake_cash, args.time_tolerance_minutes)
          THEN /\ used_pos' = used_pos \cup {scan.best_idx[1]}
               /\ UNCHANGED hotcake_time_mismatches
          ELSE /\ hotcake_time_mismatches' =
                      Append(hotcake_time_mismatches,
                             UnmatchedOrderRow(o, minutes, hotcake_cash, scan))
               /\ UNCHANGED used_pos
    /\ order_i' = order_i + 1
    /\ UNCHANGED <<pc, args, scopeVars, totalVars, cardVars,
                   pos_time_mismatches, pos_candidates, result, earlier_call>>

\* lines 387-416
PosLeftovers ==
    /\ pc = "cash_loop"
    /\ order_i > Len(scoped_orders)
    /\ pos_time_mismatches' =
           PosLeftoverRows(pos_candidates, 1, used_pos, scoped_orders,
                           bill_cash_map)
    /\ pc' = "return"
    /\ UNCHANGED <<args, scopeVars, totalVars, cardVars,
                   hotcake_time_mismatches, pos_candidates, used_pos, order_i,
                   result, earlier_call>>

\* totals whose POS side leaves out the rows that were matched
CashTotals_unmatched ==
    [hotcake_service_cash |-> hotcake_service_cash,
     hotcake_topup_cash |-> hotcake_topup_cash,
     hotcake_cash_total |-> hotcake_cash_total,
     pos_cash_total |-> IF pos_cash_total = None THEN None
                        ELSE Some(SumSeq(MapSeq(pos_time_mismatches,
                                                RowCashPaid))),
     pos_cash_diff |-> pos_cash_diff,
     card_machine_total |-> card_machine_total]

\* lines 429-436
CashTotals ==
    [hotcake_service_cash |-> hotcake_service_cash,
     hotcake_topup_cash |-> hotcake_topup_cash,
     hotcake_cash_total |-> hotcake_cash_total,
     pos_cash_total |-> pos_cash_total,
     pos_cash_diff |-> pos_cash_diff,
     card_machine_total |-> card_machine_total]

\* lines 418-437
CashReconResult ==
    [period |-> args.period, store |-> args.store,
     missing_bills |-> missing_bills,
     service_bill_rows |-> service_bill_rows,
     topup_bill_rows |-> topup_bill_rows,
     hotcake_time_mismatches |-> hotcake_time_mismatches,
     pos_time_mismatches |-> pos_time_mismatches,
     card_machine_rows |-> scoped_card,
     card_matches |-> card_matches,
     card_mismatches |-> card_mismatches,
     totals |-> CashTotals]

\* lines 418-437
Return ==
    /\ pc = "return"
    /\ result' = Some(CashReconResult)
    /\ pc' = "done"
    /\ UNCHANGED <<args, scopeVars, totalVars, cardVars, cashVars, earlier_call>>

\* lines 80-90: build_cash_recon is called again, by a caller that may keep
\* what the call before returned. The frame of the new call has no local
\* assigned: no local is given a value here, and each block assigns what it
\* reads.
CallAgain(inputs) ==
    /\ pc = "done"
    /\ args' \in inputs
    /\ earlier_call' \in
           IF earlier_call = None
           THEN {None, Some([args |-> args, result |-> result[1],
                             other_between |-> FALSE])}
           ELSE {Some([earlier_call[1] EXCEPT
                          !.other_between = @ \/ args # earlier_call[1].args])}
    /\ result' = None
    /\ pc' = "scope_orders"
    /\ UNCHANGED <<scopeVars, totalVars, cardVars, cashVars>>

\* a call of _extract_minutes (lines 35-44) on the text in args
ExtractMinutes ==
    /\ pc = "extract"
    /\ result' = Some(_extract_minutes(args))
    /\ pc' = "extracted"
    /\ UNCHANGED <<args, scopeVars, totalVars, cardVars, cashVars,
                   earlier_call>>

\* _normalize_pay_method on its own
NormalizePayMethod ==
    /\ pc = "normalize"
    /\ result' = Some(_normalize_pay_method(args))
    /\ pc' = "normalized"
    /\ UNCHANGED <<args, scopeVars, totalVars, cardVars, cashVars,
                   earlier_call>>

\* app.py, lines 241-304: the button of the interactive app. args holds what
\* the form gave: the store as typed, and the period as the two results of
\* _parse_dt (None for a text that is no date)
AppRun ==
    /\ pc = "app_run"
    /\ LET start_dt == args.period.start
           end_dt == args.period.end
       IN IF start_dt = None \/ end_dt = None
          THEN pc' = "stopped" /\ UNCHANGED args
          ELSE IF start_dt[1] > end_dt[1]
          THEN pc' = "stopped" /\ UNCHANGED args
          ELSE IF Strip(args.store) = <<>>
          THEN pc' = "stopped" /\ UNCHANGED args
          ELSE /\ args' = [args EXCEPT
                              !.period = [start |-> start_dt[1],
                                          end |-> end_dt[1]],
                              !.store = Strip(args.store),
                              !.card_machine_rows = None]
               /\ pc' = "scope_orders"
    /\ UNCHANGED <<scopeVars, totalVars, cardVars, cashVars, result,
                   earlier_call>>

\* cli.py, lines 22-38: main of the command line. _parse_dt (lines 13-19)
\* raises for a text that is no date; nothing compares start and end
CliMain ==
    /\ pc = "cli_main"
    /\ LET start_dt == args.period.start
           end_dt == args.period.end
       IN IF start_dt = None \/ end_dt = None
          THEN pc' = "raised" /\ UNCHANGED args
          ELSE /\ args' = [args EXCEPT
                              !.period = [start |-> start_dt[1],
                                          end |-> end_dt[1]],
                              !.card_machine_rows = None,
                              !.topup_mode = "settlement_time",
                              !.time_tolerance_minutes = 30]
               /\ pc' = "scope_orders"
    /\ UNCHANGED <<scopeVars, totalVars, cardVars, cashVars, result,
                   earlier_call>>

\* ------------------------------------------------- rows of the inputs

\* bounds of the inputs
MaxOrders == 2
MaxBills == 2
MaxTopUps == 2
MaxTime == 3

SeqsUpTo(S, n) == UNION {[1..k -> S] : k \in 0..n}

\* the store asked for, and the stores of the rows: two that differ from it
\* only in spaces and case, one that differs by a tab (which is not removed),
\* one other store
STORE == <<"a", " ", "B">>
STORE_SAME == <<"a", "b">>
STORE_DRIFT == <<"A", FW, "b">>
STORE_TAB == <<"a", TAB, "b">>
STORE_OTHER == <<"a", "c">>

SERVICE_60 == <<"c", "u", "t", " ", "6", "0", FEN, ZHONG>>
SERVICE_90 == <<"c", "u", "t", " ", "9", "0", FEN, ZHONG>>

OrderIds == <<"o1", "o2", "o3", "o4">>

\* OrdersRow (parse.py): o gives the fields that vary, i the position in the
\* sheet, from which the identifying and contact fields are derived
OrdersRow(o, i) ==
    [order_id |-> OrderIds[i], order_code |-> <<"code", i>>,
     service_start |-> o.service_start, store |-> o.store,
     designer |-> o.designer, service |-> o.service,
     order_status |-> o.order_status,
     checkin_time |-> IF o.order_status = CHECKED_IN
                      THEN Some(o.service_start) ELSE None,
     bill_id |-> o.bill_id, bill_amount |-> o.bill_amount,
     member_name |-> <<"member", i>>, phone |-> <<"phone", i>>]

OrderLists(choices, n) ==
    {[i \in 1..Len(s) |-> OrdersRow(s[i], i)] : s \in SeqsUpTo(choices, n)}

OrderChoice(store, service_start, designer, order_status, bill_id,
            bill_amount) ==
    [store |-> store, service_start |-> service_start, designer |-> designer,
     service |-> SERVICE_60, order_status |-> order_status,
     bill_id |-> bill_id, bill_amount |-> bill_amount]

\* BillRow (parse.py); the loader keeps no row with an empty bill_id
BillRow(bill_id, store, settlement_time, cash, credit_card, linepay) ==
    [bill_id |-> bill_id, settlement_time |-> settlement_time,
     attributed_date |-> 0, store |-> store, designer |-> <<"a">>,
     item |-> SERVICE_60, cash |-> cash, credit_card |-> credit_card,
     linepay |-> linepay, bill_amount |-> cash + credit_card + linepay]

\* PosRow (parse.py)
PosRow(product_name, created_time, cash_paid) ==
    [product_name |-> product_name, created_time |-> created_time,
     terminal_name |-> STORE_OTHER, order_amount |-> cash_paid,
     cash_paid |-> cash_paid, pay_status |-> "paid", order_status |-> "done",
     pay_method |-> <<"c", "a", "s", "h">>]

\* CardMachineRow (parse.py)
CardMachineRow(store, transaction_time, paid_amount, pay_method) ==
    [order_id |-> "t", store |-> store, device_name |-> "d",
     amount |-> paid_amount, paid_amount |-> paid_amount,
     transaction_time |-> transaction_time, pay_method |-> pay_method]

\* the keyword arguments of build_cash_recon (lines 80-90)
Args(period, store, orders, service, topup, pos_orders, card_machine_rows,
     topup_mode, time_tolerance_minutes) ==
    [period |-> period, store |-> store, orders |-> orders,
     bills |-> [service |-> service, topup |-> topup],
     pos_orders |-> pos_orders, card_machine_rows |-> card_machine_rows,
     topup_mode |-> topup_mode,
     time_tolerance_minutes |-> time_tolerance_minutes]

PRODUCT_A == <<"A", " ", ",", "6", "0", FEN, ZHONG>>
PRODUCT_A90 == <<"a", ",", "9", "0", FEN, ZHONG>>
PRODUCT_B == <<"b">>

PAY_CREDIT == <<XIN, YONG, KA>>
PAY_LINE == <<"L", "I", "N", "E", " ", "P", "a", "y">>
PAY_OTHER == <<"c", "a", "s", "h">>

\* ------------------------------------------- inputs: scoping and totals

Times == 0..MaxTime

\* a period with a second before it and a second after it in Times
PERIOD == [start |-> 1, end |-> MaxTime - 1]

\* a period whose start is later than its end (the command line checks nothing)
PERIOD_REVERSED == [start |-> 2, end |-> 1]

DEFAULT_TOLERANCE == 30     \* time_tolerance_minutes: int = 30
SETTLEMENT_TIME == "settlement_time"
EXCLUDE == "exclude"

DefaultOrders ==
    OrderLists({OrderChoice(STORE_DRIFT, 1, <<"a">>, CHECKED_IN, "B1", 12)}, 1)
        \ {<<>>}
DefaultService == <<BillRow("B1", STORE_DRIFT, 1, 4, 7, 0)>>
DefaultTopUp == <<BillRow("T1", STORE_DRIFT, 1, 8, 0, 0)>>
DefaultPos == Some(<<PosRow(PRODUCT_A, 1, 3)>>)
DefaultCard == Some(<<CardMachineRow(STORE_DRIFT, 1, 7, PAY_CREDIT)>>)

\* orders whose store and service_start vary, all of them checked in and
\* without a bill
ScopeChoices ==
    {OrderChoice(st, t, <<"a">>, CHECKED_IN, "", 0) :
        st \in {STORE_DRIFT, STORE_TAB}, t \in Times}
    \cup {OrderChoice(st, 1, <<"a">>, CHECKED_IN, "", 0) :
            st \in {STORE_SAME, STORE_OTHER}}

\* orders in scope that miss one or two conditions of the missing-bill rule
MissingChoices ==
    {OrderChoice(STORE_DRIFT, 1, <<"a">>, "cancelled", "", 0),
     OrderChoice(STORE_DRIFT, 1, <<"a">>, CHECKED_IN, "B1", 0),
     OrderChoice(STORE_DRIFT, 1, <<"a">>, CHECKED_IN, "", 5),
     OrderChoice(STORE_DRIFT, 1, <<"a">>, CHECKED_IN, "B1", 5)}

ScopeInputs ==
    {Args(PERIOD, STORE, os, DefaultService, DefaultTopUp, DefaultPos,
          DefaultCard, SETTLEMENT_TIME, DEFAULT_TOLERANCE) :
        os \in OrderLists(ScopeChoices \cup MissingChoices, MaxOrders)}
    \cup
    {Args(PERIOD_REVERSED, STORE, os, DefaultService, DefaultTopUp,
          DefaultPos, DefaultCard, SETTLEMENT_TIME, DEFAULT_TOLERANCE) :
        os \in OrderLists(ScopeChoices, 1)}

\* orders with a bill id, in and out of the period, and one without
BillOrderChoices ==
    {OrderChoice(STORE_DRIFT, 1, <<"a">>, CHECKED_IN, "B1", 5),
     OrderChoice(STORE_DRIFT, 0, <<"a">>, CHECKED_IN, "B1", 5),
     OrderChoice(STORE_DRIFT, 1, <<"a">>, CHECKED_IN, "B2", 5),
     OrderChoice(STORE_DRIFT, 1, <<"a">>, CHECKED_IN, "", 0)}

\* service bills settled in and out of the period; the store is another one
ServiceChoices ==
    {BillRow("B1", STORE_OTHER, 1, 1, 0, 0),
     BillRow("B1", STORE_OTHER, 0, 2, 0, 0),
     BillRow("B2", STORE_OTHER, 0, 64, 0, 0)}

ServiceInputs ==
    {Args(PERIOD, STORE, os, sv, DefaultTopUp, DefaultPos, DefaultCard,
          SETTLEMENT_TIME, DEFAULT_TOLERANCE) :
        os \in OrderLists(BillOrderChoices, MaxOrders),
        sv \in SeqsUpTo(ServiceChoices, MaxBills)}

TopUpChoices ==
    {BillRow("T1", STORE_DRIFT, t, 16 + t, 0, 0) : t \in Times}
    \cup {BillRow("T2", st, 1, 32, 0, 0) : st \in {STORE_OTHER, STORE_TAB}}

TopUpInputs ==
    {Args(PERIOD, STORE, os, DefaultService, tu, DefaultPos, DefaultCard,
          mode, DEFAULT_TOLERANCE) :
        os \in {<<>>} \cup DefaultOrders,
        tu \in SeqsUpTo(TopUpChoices, MaxTopUps),
        mode \in {SETTLEMENT_TIME, EXCLUDE}}

\* the optional inputs: not supplied, supplied and empty, supplied with rows
\* in and out of scope
PosOptions ==
    {None, Some(<<>>), Some(<<PosRow(PRODUCT_A, 1, 3)>>),
     Some(<<PosRow(PRODUCT_A, 0, 3)>>),
     Some(<<PosRow(PRODUCT_A, 1, 100), PosRow(PRODUCT_B, MaxTime, 3)>>)}

CardOptions ==
    {None, Some(<<>>), Some(<<CardMachineRow(STORE_DRIFT, 1, 7, PAY_CREDIT)>>),
     Some(<<CardMachineRow(STORE_OTHER, 1, 7, PAY_CREDIT)>>),
     Some(<<CardMachineRow(STORE_DRIFT, 0, 7, PAY_CREDIT),
            CardMachineRow(STORE_SAME, 1, 5, PAY_OTHER)>>)}

OptionalInputs ==
    {Args(PERIOD, STORE, os, DefaultService, DefaultTopUp, pos, card,
          SETTLEMENT_TIME, DEFAULT_TOLERANCE) :
        os \in {<<>>} \cup DefaultOrders,
        pos \in PosOptions, card \in CardOptions}

Inputs == ScopeInputs \cup ServiceInputs \cup TopUpInputs \cup OptionalInputs

\* ------------------------------------------------- inputs: the cash pass

MaxPos == 2

\* times are seconds: with a tolerance of one minute, 60 apart is within it
\* and 70 apart is not
CASH_PERIOD == [start |-> 0, end |-> 200]

DESIGNER_A == <<"A">>
DESIGNER_B == <<"b">>

\* two rows of bill B1, whose cash adds up to 5
CashService ==
    <<BillRow("B1", STORE_DRIFT, 60, 2, 0, 0),
      BillRow("B1", STORE_DRIFT, 70, 3, 0, 0)>>

CashOrder(designer, service_start, bill_id, bill_amount) ==
    OrderChoice(STORE_DRIFT, service_start, designer, CHECKED_IN, bill_id,
                bill_amount)

CashOrderChoices ==
    {CashOrder(DESIGNER_A, 60, "B1", 5), CashOrder(DESIGNER_A, 120, "B1", 5),
     CashOrder(DESIGNER_A, 60, "", 0), CashOrder(DESIGNER_A, 120, "", 0),
     CashOrder(<<>>, 60, "B1", 5), CashOrder(DESIGNER_B, 60, "", 0)}

CashOrderLists ==
    {[i \in 1..Len(s) |-> OrdersRow(s[i], i)] : s \in
        {<<CashOrder(DESIGNER_A, 60, "B1", 5)>>,
         <<CashOrder(DESIGNER_A, 60, "B1", 5),
           CashOrder(DESIGNER_A, 120, "B1", 5)>>,
         <<CashOrder(DESIGNER_A, 120, "B1", 5),
           CashOrder(DESIGNER_A, 60, "B1", 5)>>,
         <<CashOrder(DESIGNER_A, 120, "", 0), CashOrder(<<>>, 60, "B1", 5)>>,
         <<CashOrder(DESIGNER_B, 60, "", 0),
           CashOrder(DESIGNER_A, 60, "B1", 5)>>}}

CashPosChoices ==
    {PosRow(PRODUCT_A, 0, 5), PosRow(PRODUCT_A, 120, 5),
     PosRow(PRODUCT_A, 120, 0), PosRow(PRODUCT_A, 190, 5),
     PosRow(PRODUCT_A90, 120, 5), PosRow(PRODUCT_B, 120, 0),
     PosRow(PRODUCT_A, 90, 0)}

CashPosLists ==
    {<<PosRow(PRODUCT_A, 120, 5)>>,
     <<PosRow(PRODUCT_A, 0, 5), PosRow(PRODUCT_A, 120, 5)>>,
     <<PosRow(PRODUCT_A, 120, 0), PosRow(PRODUCT_A, 190, 5)>>,
     <<PosRow(PRODUCT_A90, 120, 5), PosRow(PRODUCT_B, 120, 0)>>,
     <<PosRow(PRODUCT_A, 120, 5), PosRow(PRODUCT_A, 300, 5)>>,
     <<PosRow(PRODUCT_A, 300, 5)>>}

Tolerances == {0, 1}

CashArgs(os, pos, tol) ==
    Args(CASH_PERIOD, STORE, os, CashService, DefaultTopUp, Some(pos),
         DefaultCard, SETTLEMENT_TIME, tol)

\* a designer of spaces only, and a POS row with nothing before its comma
DESIGNER_BLANK == <<" ", FW>>
PRODUCT_NOBODY == <<" ", ",", "6", "0", FEN, ZHONG>>

BlankOrderLists ==
    {[i \in 1..Len(s) |-> OrdersRow(s[i], i)] : s \in
        {<<CashOrder(DESIGNER_BLANK, 60, "B1", 5)>>,
         <<CashOrder(DESIGNER_BLANK, 60, "B1", 5),
           CashOrder(DESIGNER_A, 60, "B1", 5)>>,
         <<CashOrder(DESIGNER_A, 60, "B1", 5),
           CashOrder(<<>>, 120, "", 0)>>}}

BlankPosLists ==
    {<<PosRow(PRODUCT_NOBODY, 60, 5)>>,
     <<PosRow(PRODUCT_NOBODY, 60, 5), PosRow(PRODUCT_A, 60, 5)>>,
     <<PosRow(PRODUCT_A, 60, 5), PosRow(PRODUCT_NOBODY, 120, 0)>>}

CashInputs ==
    {CashArgs(os, pos, tol) :
        os \in OrderLists(CashOrderChoices, MaxOrders),
        pos \in CashPosLists, tol \in Tolerances}
    \cup
    {CashArgs(os, pos, tol) :
        os \in CashOrderLists,
        pos \in SeqsUpTo(CashPosChoices, MaxPos), tol \in Tolerances}
    \cup
    {CashArgs(os, pos, tol) :
        os \in BlankOrderLists, pos \in BlankPosLists, tol \in Tolerances}

\* ------------------------------------------------- inputs: the card pass

MaxCards == 2

\* two orders in scope, one of bill B1 and one of bill B2
CardOrders ==
    <<OrdersRow(CashOrder(DESIGNER_A, 60, "B1", 7), 1),
      OrdersRow(CashOrder(DESIGNER_A, 60, "B2", 7), 2)>>

\* service bills paid by credit card, by LINE Pay, by both and by neither;
\* two rows of one bill
CardServiceChoices ==
    {BillRow("B1", STORE_DRIFT, 60, 0, 7, 0),
     BillRow("B1", STORE_DRIFT, 120, 0, 7, 0),
     BillRow("B2", STORE_DRIFT, 60, 0, 7, 7),
     BillRow("B2", STORE_DRIFT, 130, 0, 0, 7),
     BillRow("B2", STORE_DRIFT, 60, 5, 0, 0)}

CardServiceLists ==
    {<<BillRow("B1", STORE_DRIFT, 60, 0, 7, 0)>>,
     <<BillRow("B1", STORE_DRIFT, 60, 0, 7, 0),
       BillRow("B1", STORE_DRIFT, 120, 0, 7, 0)>>,
     <<BillRow("B2", STORE_DRIFT, 60, 0, 7, 7)>>,
     <<BillRow("B2", STORE_DRIFT, 60, 5, 0, 0),
       BillRow("B2", STORE_DRIFT, 130, 0, 0, 7)>>}

CardChoices ==
    {CardMachineRow(STORE_DRIFT, 60, 7, PAY_CREDIT),
     CardMachineRow(STORE_DRIFT, 120, 7, PAY_CREDIT),
     CardMachineRow(STORE_DRIFT, 60, 7, PAY_LINE),
     CardMachineRow(STORE_DRIFT, 130, 7, PAY_LINE),
     CardMachineRow(STORE_DRIFT, 60, 9, PAY_CREDIT),
     CardMachineRow(STORE_DRIFT, 60, 7, PAY_OTHER)}

CardLists ==
    {<<CardMachineRow(STORE_DRIFT, 60, 7, PAY_CREDIT)>>,
     <<CardMachineRow(STORE_DRIFT, 120, 7, PAY_CREDIT),
       CardMachineRow(STORE_DRIFT, 60, 7, PAY_CREDIT)>>,
     <<CardMachineRow(STORE_DRIFT, 60, 7, PAY_LINE),
       CardMachineRow(STORE_DRIFT, 60, 7, PAY_CREDIT)>>,
     <<CardMachineRow(STORE_DRIFT, 60, 7, PAY_OTHER),
       CardMachineRow(STORE_DRIFT, 130, 7, PAY_LINE)>>}

\* a top-up bill of the store and period, paid by card and by LINE Pay
CardTopUp == <<BillRow("T1", STORE_DRIFT, 60, 8, 7, 7)>>

\* a service bill that no order carries, paid by card, before one in scope
CardServiceListsUnreferenced ==
    {<<BillRow("B3", STORE_DRIFT, 60, 0, 7, 0),
       BillRow("B2", STORE_DRIFT, 60, 0, 7, 7)>>}

CardArgs(sv, cards, tol) ==
    Args(CASH_PERIOD, STORE, CardOrders, sv, CardTopUp, DefaultPos,
         Some(cards), SETTLEMENT_TIME, tol)

\* card rows of another store, and after the period
CardListsOutOfScope ==
    {<<CardMachineRow(STORE_OTHER, 60, 7, PAY_CREDIT)>>,
     <<CardMachineRow(STORE_DRIFT, 300, 7, PAY_CREDIT)>>}

CardInputs ==
    {CardArgs(sv, cards, tol) :
        sv \in SeqsUpTo(CardServiceChoices, MaxBills),
        cards \in CardLists, tol \in Tolerances}
    \cup
    {CardArgs(sv, cards, tol) :
        sv \in CardServiceLists,
        cards \in SeqsUpTo(CardChoices, MaxCards), tol \in Tolerances}
    \cup
    {CardArgs(sv, cards, tol) :
        sv \in CardServiceLists, cards \in CardListsOutOfScope,
        tol \in Tolerances}
    \cup
    {CardArgs(sv, cards, tol) :
        sv \in CardServiceListsUnreferenced, cards \in CardLists,
        tol \in Tolerances}

\* ------------------------------------------------- inputs: repeated calls

\* one bill paid in cash and by credit card
RerunService == <<BillRow("B1", STORE_DRIFT, 60, 5, 7, 0)>>

RerunOrderLists ==
    {[i \in 1..Len(s) |-> OrdersRow(s[i], i)] : s \in
        {<<CashOrder(DESIGNER_A, 60, "B1", 12)>>,
         <<CashOrder(DESIGNER_A, 120, "B1", 12),
           CashOrder(DESIGNER_A, 60, "B1", 12)>>}}

RerunPosOptions ==
    {None, Some(<<PosRow(PRODUCT_A, 60, 5)>>),
     Some(<<PosRow(PRODUCT_A, 120, 5), PosRow(PRODUCT_A, 60, 5)>>)}

RerunCardOptions ==
    {None, Some(<<CardMachineRow(STORE_DRIFT, 60, 7, PAY_CREDIT)>>),
     Some(<<CardMachineRow(STORE_DRIFT, 130, 7, PAY_CREDIT)>>)}

RerunInputs ==
    {Args(CASH_PERIOD, STORE, os, RerunService, DefaultTopUp, pos, card,
          SETTLEMENT_TIME, 1) :
        os \in RerunOrderLists, pos \in RerunPosOptions,
        card \in RerunCardOptions}

\* ------------------------------------------------- inputs: the tolerance

\* calls that differ in the tolerance alone: a POS row and a card row one
\* minute away from the order and from the bill, matched with a tolerance of
\* one minute and not with none
TolerancePosOptions ==
    {Some(<<PosRow(PRODUCT_A, 120, 5)>>),
     Some(<<PosRow(PRODUCT_A, 60, 5), PosRow(PRODUCT_A, 120, 5)>>)}

ToleranceCard == Some(<<CardMachineRow(STORE_DRIFT, 120, 7, PAY_CREDIT)>>)

ToleranceInputs ==
    {Args(CASH_PERIOD, STORE, os, RerunService, DefaultTopUp, pos,
          ToleranceCard, SETTLEMENT_TIME, tol) :
        os \in RerunOrderLists, pos \in TolerancePosOptions,
        tol \in Tolerances}

\* ------------------------------------------------- inputs: texts

MaxText == 4

TextChars == {"6", "0", " ", "a", FEN, ZHONG}

\* the texts of the rows above, every short text, and texts in which the
\* characters of the pattern itself are written
Texts ==
    SeqsUpTo(TextChars, MaxText)
    \cup {SERVICE_60, SERVICE_90, PRODUCT_A, PRODUCT_A90, PRODUCT_B,
          <<"\\", "d", "\\", FEN, ZHONG>>,
          <<"6", "\\", "d", "d", "\\", "s", FEN, ZHONG>>}

\* ------------------------------------------------- inputs: pay methods

MaxWords == 3

PayWords ==
    {<<"L", "I", "N", "E">>, <<"P", "a", "y">>, <<"c", "a", "r", "d">>,
     <<"C", "r", "e", "d", "i", "t">>, <<XIN, YONG, KA>>, <<XIN>>,
     <<YONG, KA>>, <<"l", "i">>, <<"n", "e">>, <<" ">>, <<"_">>, <<"x">>}

RECURSIVE Concat(_)
Concat(words) ==
    IF words = <<>> THEN <<>> ELSE Head(words) \o Concat(Tail(words))

\* the method texts: up to MaxWords of the words above, written one after
\* the other
PayTexts == {Concat(ws) : ws \in SeqsUpTo(PayWords, MaxWords)}

\* ------------------------------------------------- inputs: the callers

\* what _parse_dt gives for the text of a date
ParsedTimes == {None} \cup {Some(t) : t \in Times}

STORE_BLANK == <<" ", FW>>

\* what the form and the command line give: any two dates, the store or
\* nothing but spaces
CallerInputs ==
    {Args([start |-> s, end |-> e], st, os, DefaultService, DefaultTopUp,
          DefaultPos, None, SETTLEMENT_TIME, DEFAULT_TOLERANCE) :
        s \in ParsedTimes, e \in ParsedTimes, st \in {STORE, STORE_BLANK},
        os \in DefaultOrders}

\* ------------------------------------------------- inputs: ties

\* POS rows a minute before and a minute after an order at 60, with the cash
\* of its bill and with none
TiePosChoices ==
    {PosRow(PRODUCT_A, 0, 5), PosRow(PRODUCT_A, 120, 5),
     PosRow(PRODUCT_A, 0, 0), PosRow(PRODUCT_A, 120, 0)}

TieOrderLists ==
    {[i \in 1..Len(s) |-> OrdersRow(s[i], i)] : s \in
        {<<CashOrder(DESIGNER_A, 60, "B1", 5)>>,
         <<CashOrder(DESIGNER_A, 60, "B1", 5),
           CashOrder(DESIGNER_A, 60, "", 0)>>}}

\* rows of bill B1 paid by card, half a minute before and half a minute
\* after a card row at 90
TieServiceLists ==
    {<<BillRow("B1", STORE_DRIFT, 60, 2, 7, 0),
       BillRow("B1", STORE_DRIFT, 120, 3, 7, 0)>>,
     <<BillRow("B1", STORE_DRIFT, 120, 2, 7, 0),
       BillRow("B1", STORE_DRIFT, 60, 3, 7, 0)>>,
     <<BillRow("B1", STORE_DRIFT, 60, 5, 7, 7)>>}

TieCardLists ==
    {<<CardMachineRow(STORE_DRIFT, 90, 7, PAY_CREDIT)>>,
     <<CardMachineRow(STORE_DRIFT, 90, 7, PAY_CREDIT),
       CardMachineRow(STORE_DRIFT, 90, 7, PAY_CREDIT)>>,
     <<CardMachineRow(STORE_DRIFT, 90, 7, PAY_LINE)>>}

TieInputs ==
    {Args(CASH_PERIOD, STORE, os, sv, DefaultTopUp, Some(pos), Some(cards),
          SETTLEMENT_TIME, tol) :
        os \in TieOrderLists, sv \in TieServiceLists,
        pos \in SeqsUpTo(TiePosChoices, MaxPos), cards \in TieCardLists,
        tol \in Tolerances}

\* ------------------------------------------------- the specifications

\* the state at the call, before any block has run: no local is assigned
Start(inputs) ==
    /\ pc = "scope_orders"
    /\ args \in inputs
    /\ store_norm = <<>>
    /\ scoped_orders = <<>>
    /\ missing_bills = <<>>
    /\ bill_ids_in_scope = {}
    /\ service_bill_rows = <<>>
    /\ topup_bill_rows = <<>>
    /\ hotcake_service_cash = 0
    /\ hotcake_topup_cash = 0
    /\ hotcake_cash_total = 0
    /\ bill_cash_map = <<>>
    /\ pos_cash_total = None
    /\ pos_cash_diff = None
    /\ scoped_pos = <<>>
    /\ card_machine_total = None
    /\ scoped_card = <<>>
    /\ card_matches = <<>>
    /\ card_mismatches = <<>>
    /\ hotcake_card_candidates = <<>>
    /\ used_hotcake = {}
    /\ card_i = 1
    /\ hotcake_time_mismatches = <<>>
    /\ pos_time_mismatches = <<>>
    /\ pos_candidates = <<>>
    /\ used_pos = {}
    /\ order_i = 1
    /\ result = None
    /\ earlier_call = None

Init == Start(Inputs)

Next ==
    \/ ScopeOrders
    \/ DetectMissingBills
    \/ SelectServiceBills
    \/ SelectTopUpBills
    \/ ComputeTotals
    \/ BeginCardPass
    \/ CardStep
    \/ CardLeftovers
    \/ BeginCashPass
    \/ CashStep
    \/ PosLeftovers
    \/ Return

Spec == Init /\ [][Next]_vars

InitCash == Start(CashInputs)

SpecCash == InitCash /\ [][Next]_vars

InitCard == Start(CardInputs)

SpecCard == InitCard /\ [][Next]_vars

InitRerun == Start(RerunInputs)

NextRerun == Next \/ CallAgain(RerunInputs)

SpecRerun == InitRerun /\ [][NextRerun]_vars

InitTolerance == Start(ToleranceInputs)

NextTolerance == Next \/ CallAgain(ToleranceInputs)

SpecTolerance == InitTolerance /\ [][NextTolerance]_vars

\* a call of _extract_minutes: build_cash_recon is not running
InitMinutes ==
    /\ pc = "extract"
    /\ args \in Texts
    /\ store_norm = <<>>
    /\ scoped_orders = <<>>
    /\ missing_bills = <<>>
    /\ bill_ids_in_scope = {}
    /\ service_bill_rows = <<>>
    /\ topup_bill_rows = <<>>
    /\ hotcake_service_cash = 0
    /\ hotcake_topup_cash = 0
    /\ hotcake_cash_total = 0
    /\ bill_cash_map = <<>>
    /\ pos_cash_total = None
    /\ pos_cash_diff = None
    /\ scoped_pos = <<>>
    /\ card_machine_total = None
    /\ scoped_card = <<>>
    /\ card_matches = <<>>
    /\ card_mismatches = <<>>
    /\ hotcake_card_candidates = <<>>
    /\ used_hotcake = {}
    /\ card_i = 1
    /\ hotcake_time_mismatches = <<>>
    /\ pos_time_mismatches = <<>>
    /\ pos_candidates = <<>>
    /\ used_pos = {}
    /\ order_i = 1
    /\ result = None
    /\ earlier_call = None

NextMinutes == ExtractMinutes

SpecMinutes == InitMinutes /\ [][NextMinutes]_vars

\* no local of build_cash_recon is assigned and nothing has been returned
NoLocalAssigned ==
    /\ store_norm = <<>>
    /\ scoped_orders = <<>>
    /\ missing_bills = <<>>
    /\ bill_ids_in_scope = {}
    /\ service_bill_rows = <<>>
    /\ topup_bill_rows = <<>>
    /\ hotcake_service_cash = 0
    /\ hotcake_topup_cash = 0
    /\ hotcake_cash_total = 0
    /\ bill_cash_map = <<>>
    /\ pos_cash_total = None
    /\ pos_cash_diff = None
    /\ scoped_pos = <<>>
    /\ card_machine_total = None
    /\ scoped_card = <<>>
    /\ card_matches = <<>>
    /\ card_mismatches = <<>>
    /\ hotcake_card_candidates = <<>>
    /\ used_hotcake = {}
    /\ card_i = 1
    /\ hotcake_time_mismatches = <<>>
    /\ pos_time_mismatches = <<>>
    /\ pos_candidates = <<>>
    /\ used_pos = {}
    /\ order_i = 1
    /\ result = None
    /\ earlier_call = None

InitPay ==
    /\ pc = "normalize"
    /\ args \in PayTexts
    /\ NoLocalAssigned

NextPay == NormalizePayMethod

SpecPay == InitPay /\ [][NextPay]_vars

\* a run of one of the two callers of build_cash_recon
InitCallers ==
    /\ pc \in {"app_run", "cli_main"}
    /\ args \in CallerInputs
    /\ NoLocalAssigned

\* neither caller passes card_machine_rows (app.py lines 296-304, cli.py
\* line 38), so the loop of the card pass is never entered
NextCallers ==
    \/ AppRun
    \/ CliMain
    \/ ScopeOrders
    \/ DetectMissingBills
    \/ SelectServiceBills
    \/ SelectTopUpBills
    \/ ComputeTotals
    \/ BeginCardPass
    \/ BeginCashPass
    \/ CashStep
    \/ PosLeftovers
    \/ Return

SpecCallers == InitCallers /\ [][NextCallers]_vars

InitTies == Start(TieInputs)

SpecTies == InitTies /\ [][Next]_vars

\* ------------------------------------------------------- the claims

Done == pc = "done"

\* what the specification says of a store name: spaces and full-width spaces
\* do not count, nor does case
IsSpace(c) == c \in {" ", FW}
KeepsChar(c) == ~ IsSpace(c)
StoreKey(value) == Lower(SelectSeq(value, KeepsChar))

\* an order is in scope of the call
InScope(o) ==
    /\ StoreKey(o.store) = StoreKey(args.store)
    /\ args.period.start <= o.service_start
    /\ o.service_start <= args.period.end

Range(seq) == {seq[i] : i \in 1..Len(seq)}

\* the sum of field f over the rows of a list
RECURSIVE FieldSum(_, _)
FieldSum(rows, f) ==
    IF Len(rows) = 0 THEN 0
    ELSE FieldSum(SubSeq(rows, 1, Len(rows) - 1), f) + rows[Len(rows)][f]

MissingBillFields ==
    {"store", "order_id", "order_code", "service_start", "designer",
     "service", "order_status", "checkin_time", "member_name", "phone"}

ExpectedMissingRow(o) == [f \in MissingBillFields |-> o[f]]

ExpectsMissingBill(o) ==
    /\ InScope(o)
    /\ o.order_status = CHECKED_IN
    /\ o.bill_id = ""
    /\ o.bill_amount = 0

\* C1: the returned missing_bills holds, in the orders' input order, one row
\* for each in-scope order that is checked in, has an empty bill_id and a
\* bill_amount of 0, and no row for any other order; each row carries the
\* order's store, order_id, order_code, service_start, designer, service,
\* order_status, checkin_time, member_name and phone.
C1_MissingBills ==
    Done =>
        result[1].missing_bills =
            MapSeq(SelectSeq(args.orders, ExpectsMissingBill),
                   ExpectedMissingRow)

\* a checked-in in-scope order with an empty bill_id but a non-zero amount
\* comes first and gets no row; the second order gets the only row
C1_Witness ==
    /\ Done
    /\ Len(args.orders) = 2
    /\ InScope(args.orders[1])
    /\ args.orders[1].order_status = CHECKED_IN
    /\ args.orders[1].bill_id = ""
    /\ args.orders[1].bill_amount # 0
    /\ Len(result[1].missing_bills) = 1
    /\ result[1].missing_bills[1].order_id = args.orders[2].order_id

StoreMatches(o) == StoreKey(o.store) = StoreKey(args.store)

\* C2: once the orders are scoped, scoped_orders holds exactly the orders whose
\* normalised store equals the normalised requested store and whose
\* service_start lies in [period.start, period.end]; an order of the store at
\* period.start or at period.end (the other bound allowing) is included, an
\* order one second before the start or one second after the end is not.
C2_OrderScope ==
    pc # "scope_orders" =>
        /\ scoped_orders = SelectSeq(args.orders, InScope)
        /\ \A i \in 1..Len(args.orders) :
              LET o == args.orders[i]
              IN /\ (/\ StoreMatches(o)
                     /\ o.service_start = args.period.start
                     /\ o.service_start <= args.period.end)
                        => o \in Range(scoped_orders)
                 /\ (/\ StoreMatches(o)
                     /\ o.service_start = args.period.end
                     /\ args.period.start <= o.service_start)
                        => o \in Range(scoped_orders)
                 /\ o.service_start = args.period.start - 1
                        => o \notin Range(scoped_orders)
                 /\ o.service_start = args.period.end + 1
                        => o \notin Range(scoped_orders)
                 /\ ~ StoreMatches(o) => o \notin Range(scoped_orders)

\* two orders of the store under another spelling, one at the end of the
\* period and kept, one a second later and dropped
C2_Witness ==
    /\ pc = "missing_bills"
    /\ args.period.start < args.period.end
    /\ Len(args.orders) = 2
    /\ args.orders[1].store # args.store
    /\ args.orders[1].service_start = args.period.end
    /\ args.orders[2].store # args.store
    /\ StoreMatches(args.orders[2])
    /\ args.orders[2].service_start = args.period.end + 1
    /\ scoped_orders = <<args.orders[1]>>

\* a service bill row is referenced by an in-scope order
Referenced(r) ==
    \E i \in 1..Len(args.orders) :
        /\ InScope(args.orders[i])
        /\ args.orders[i].bill_id = r.bill_id

BillFields ==
    {"store", "bill_id", "settlement_time", "attributed_date", "designer",
     "item", "cash", "credit_card", "linepay", "bill_amount"}

ExpectedBillRow(r) == [f \in BillFields |-> r[f]]

InPeriod(t) == args.period.start <= t /\ t <= args.period.end

\* C3: the returned service_bill_rows are the service bill rows whose bill_id
\* an in-scope order carries, whatever their settlement_time, and
\* hotcake_service_cash is the sum of their cash.
C3_ServiceBillsByOrder ==
    Done =>
        /\ result[1].service_bill_rows =
               MapSeq(SelectSeq(args.bills.service, Referenced),
                      ExpectedBillRow)
        /\ result[1].totals.hotcake_service_cash =
               FieldSum(SelectSeq(args.bills.service, Referenced), "cash")

\* a bill settled inside the period whose only order is outside is left out,
\* and a bill settled outside the period whose order is in scope is kept
C3_Witness ==
    /\ Done
    /\ Len(args.bills.service) = 2
    /\ InPeriod(args.bills.service[1].settlement_time)
    /\ ~ Referenced(args.bills.service[1])
    /\ \E i \in 1..Len(args.orders) :
          args.orders[i].bill_id = args.bills.service[1].bill_id
    /\ ~ InPeriod(args.bills.service[2].settlement_time)
    /\ Len(result[1].service_bill_rows) = 1
    /\ result[1].service_bill_rows[1].bill_id = args.bills.service[2].bill_id
    /\ result[1].totals.hotcake_service_cash = args.bills.service[2].cash

TopUpInScope(r) ==
    StoreKey(r.store) = StoreKey(args.store) /\ InPeriod(r.settlement_time)

\* C4: with topup_mode "settlement_time" the returned topup_bill_rows are the
\* top-up rows of the store settled within the period, whatever the orders;
\* with topup_mode "exclude" there is no top-up row and hotcake_topup_cash
\* is 0.
C4_TopUpScope ==
    Done =>
        /\ args.topup_mode = SETTLEMENT_TIME =>
              result[1].topup_bill_rows =
                  MapSeq(SelectSeq(args.bills.topup, TopUpInScope),
                         ExpectedBillRow)
        /\ args.topup_mode = EXCLUDE =>
              /\ result[1].topup_bill_rows = <<>>
              /\ result[1].totals.hotcake_topup_cash = 0

\* top-up rows in scope are supplied and the mode excludes them
C4_Witness ==
    /\ Done
    /\ args.topup_mode = EXCLUDE
    /\ args.orders = <<>>
    /\ Len(args.bills.topup) = 2
    /\ TopUpInScope(args.bills.topup[1])
    /\ ~ TopUpInScope(args.bills.topup[2])
    /\ result[1].topup_bill_rows = <<>>

\* C5: in the returned totals hotcake_cash_total is hotcake_service_cash plus
\* hotcake_topup_cash, these being the sums of cash over service_bill_rows and
\* topup_bill_rows, and when pos_orders is supplied pos_cash_diff is
\* pos_cash_total minus hotcake_cash_total, negative when the POS cash is the
\* smaller.
C5_Totals ==
    Done =>
        LET t == result[1].totals
        IN /\ t.hotcake_service_cash =
                  FieldSum(result[1].service_bill_rows, "cash")
           /\ t.hotcake_topup_cash = FieldSum(result[1].topup_bill_rows, "cash")
           /\ t.hotcake_cash_total =
                  t.hotcake_service_cash + t.hotcake_topup_cash
           /\ args.pos_orders # None =>
                  /\ t.pos_cash_diff # None
                  /\ t.pos_cash_total # None
                  /\ t.pos_cash_diff[1] =
                         t.pos_cash_total[1] - t.hotcake_cash_total
                  /\ (t.pos_cash_total[1] < t.hotcake_cash_total
                         => t.pos_cash_diff[1] < 0)

\* both kinds of bill contribute and the POS cash is less than their sum
C5_Witness ==
    /\ Done
    /\ result[1].totals.hotcake_service_cash > 0
    /\ result[1].totals.hotcake_topup_cash > 0
    /\ result[1].totals.pos_cash_total # None
    /\ result[1].totals.pos_cash_total[1] > 0
    /\ result[1].totals.pos_cash_diff[1] < 0

PosInPeriod(p) == InPeriod(p.created_time)

CardInScope(r) ==
    StoreKey(r.store) = StoreKey(args.store) /\ InPeriod(r.transaction_time)

\* C6: pos_cash_total and pos_cash_diff are None exactly when pos_orders is
\* not supplied, card_machine_total is None exactly when card_machine_rows is
\* not supplied; a supplied list with no row in scope gives a total of 0; when
\* an input is not supplied its match and mismatch lists are empty, and the
\* call still runs on to its return.
C6_OptionalInputs ==
    /\ (~ Done /\ (args.pos_orders = None \/ args.card_machine_rows = None))
           => ENABLED Next
    /\ Done =>
        LET r == result[1]
        IN /\ (r.totals.pos_cash_total = None) <=> (args.pos_orders = None)
           /\ (r.totals.pos_cash_diff = None) <=> (args.pos_orders = None)
           /\ (r.totals.card_machine_total = None)
                  <=> (args.card_machine_rows = None)
           /\ (/\ args.pos_orders # None
               /\ SelectSeq(args.pos_orders[1], PosInPeriod) = <<>>)
                  => r.totals.pos_cash_total = Some(0)
           /\ (/\ args.card_machine_rows # None
               /\ SelectSeq(args.card_machine_rows[1], CardInScope) = <<>>)
                  => r.totals.card_machine_total = Some(0)
           /\ args.pos_orders = None =>
                  /\ r.hotcake_time_mismatches = <<>>
                  /\ r.pos_time_mismatches = <<>>
           /\ args.card_machine_rows = None =>
                  /\ r.card_matches = <<>>
                  /\ r.card_mismatches = <<>>
                  /\ r.card_machine_rows = <<>>

\* POS rows are supplied but none is in the period, card rows are not
\* supplied, and there is an order in scope
C6_Witness ==
    /\ Done
    /\ args.pos_orders # None
    /\ args.pos_orders[1] # <<>>
    /\ args.card_machine_rows = None
    /\ scoped_orders # <<>>
    /\ result[1].totals.pos_cash_total = Some(0)
    /\ result[1].totals.card_machine_total = None

\* what the specification says of a designer name: as for a store name
NameKey(value) == StoreKey(value)

\* the text before the first comma
TextBeforeComma(text) ==
    IF \E k \in 1..Len(text) : text[k] = ","
    THEN SubSeq(text, 1,
                (CHOOSE k \in 1..Len(text) :
                    text[k] = "," /\ \A j \in 1..(k - 1) : text[j] # ",") - 1)
    ELSE text

\* the designer of a POS row
PosDesignerKey(p) == NameKey(TextBeforeComma(p.product_name))

\* the N of the first "<N><FEN><ZHONG>" of a text (spaces may separate the
\* digits from the unit), None when there is none: the duration the
\* specification means
DurationEnds(text) ==
    {k \in 1..Len(text) :
        \E j \in (k + 1)..(Len(text) - 1) :
            /\ IsDigit(text[k])
            /\ \A x \in (k + 1)..(j - 1) : text[x] = " "
            /\ text[j] = FEN
            /\ text[j + 1] = ZHONG}

DurationOf(text) ==
    IF DurationEnds(text) = {} THEN None
    ELSE LET k == CHOOSE e \in DurationEnds(text) :
                      \A g \in DurationEnds(text) : e <= g
             from == CHOOSE f \in 1..k :
                         /\ \A x \in f..k : IsDigit(text[x])
                         /\ (f = 1 \/ ~ IsDigit(text[f - 1]))
         IN Some(DecimalValue(SubSeq(text, from, k)))

DurationsCompatible(a, b) ==
    DurationOf(a) = None \/ DurationOf(b) = None \/ DurationOf(a) = DurationOf(b)

\* the cash pass is running or has run
InCashLoop == pc \in {"cash_loop", "return", "done"}

DesignerKeys ==
    {NameKey(scoped_orders[i].designer) : i \in 1..Len(scoped_orders)}
    \cup {pos_candidates[i].designer_norm : i \in 1..Len(pos_candidates)}

\* orders of designer d among the first n in-scope orders
OrdersOf(d, n) ==
    Cardinality({i \in 1..n : NameKey(scoped_orders[i].designer) = d})

MismatchesOf(d) ==
    Cardinality({i \in 1..Len(hotcake_time_mismatches) :
                    NameKey(hotcake_time_mismatches[i].designer) = d})

\* every processed order either was matched or left one mismatch row
MatchedOf(d) == OrdersOf(d, order_i - 1) - MismatchesOf(d)

PosOf(d) ==
    Cardinality({i \in 1..Len(pos_candidates) :
                    pos_candidates[i].designer_norm = d})

UsedOf(d) ==
    Cardinality({i \in used_pos : pos_candidates[i].designer_norm = d})

\* C7: at every step of the loop over the in-scope orders the matched orders
\* and the consumed POS rows are in one-to-one correspondence (each matched
\* order consumed one row that no other order consumed), designer by
\* designer; so the matched orders of a designer number at most the orders of
\* that designer and at most the scoped POS rows of that designer.
C7_CashConsumedOnce ==
    InCashLoop =>
        /\ order_i - 1 <= Len(scoped_orders)
        /\ used_pos \subseteq 1..Len(pos_candidates)
        /\ Cardinality(used_pos) =
               (order_i - 1) - Len(hotcake_time_mismatches)
        /\ \A d \in DesignerKeys :
              /\ MatchedOf(d) = UsedOf(d)
              /\ MatchedOf(d) <= OrdersOf(d, Len(scoped_orders))
              /\ MatchedOf(d) <= PosOf(d)

\* two orders wanted the only POS row: the first took it, and the second
\* found no candidate left
C7_Witness ==
    /\ pc = "cash_loop"
    /\ order_i = 3
    /\ Len(pos_candidates) = 1
    /\ used_pos = {1}
    /\ Len(hotcake_time_mismatches) = 1
    /\ hotcake_time_mismatches[1].reason = TIME_OR_AMOUNT
    /\ hotcake_time_mismatches[1].nearest_pos_time = None
    /\ NameKey(scoped_orders[1].designer) = NameKey(scoped_orders[2].designer)

ScopedOrdersOf == SelectSeq(args.orders, InScope)

ScopedPosOf ==
    IF args.pos_orders = None THEN <<>>
    ELSE SelectSeq(args.pos_orders[1], PosInPeriod)

\* the cash of the returned service bill rows of a bill id
RECURSIVE CashOfBill(_, _)
CashOfBill(rows, bill_id) ==
    IF rows = <<>> THEN 0
    ELSE (IF Head(rows).bill_id = bill_id THEN Head(rows).cash ELSE 0)
         + CashOfBill(Tail(rows), bill_id)

\* POS row p satisfies the acceptance conditions for order o
Acceptable(o, p) ==
    /\ NameKey(o.designer) # <<>>
    /\ NameKey(o.designer) = PosDesignerKey(p)
    /\ DurationsCompatible(o.service, p.product_name)
    /\ Abs(p.created_time - o.service_start)
           <= args.time_tolerance_minutes * SECONDS_PER_MINUTE
    /\ p.cash_paid = CashOfBill(result[1].service_bill_rows, o.bill_id)

InCardLoop == pc \in {"card_loop", "cash_begin", "cash_loop", "return", "done"}

PayTypes == {CREDIT_CARD, LINEPAY}

\* the mismatch rows that card-machine rows left
CardSideMismatches ==
    Cardinality({i \in 1..Len(card_mismatches) :
                    card_mismatches[i].source = "card"})

MatchesOfType(t) ==
    Cardinality({i \in 1..Len(card_matches) : card_matches[i].pay_type = t})

CandidatesOfType(t) ==
    Cardinality({i \in 1..Len(hotcake_card_candidates) :
                    hotcake_card_candidates[i].pay_type = t})

UsedOfType(t) ==
    Cardinality({i \in used_hotcake : hotcake_card_candidates[i].pay_type = t})

CardsOfType(t) ==
    Cardinality({i \in 1..Len(scoped_card) :
                    _normalize_pay_method(scoped_card[i].pay_method) = t})

\* C8: at every step of the card pass every processed card-machine row has
\* left one row, a match or a mismatch, and the matches and the consumed
\* Hotcake tender candidates are in one-to-one correspondence, so that no
\* candidate is in two matches; for each pay type the matches number at most
\* the candidates of that type and at most the scoped card rows of that type.
C8_CardConsumedOnce ==
    InCardLoop =>
        /\ card_i - 1 <= Len(scoped_card)
        /\ Len(card_matches) + CardSideMismatches = card_i - 1
        /\ used_hotcake \subseteq 1..Len(hotcake_card_candidates)
        /\ Cardinality(used_hotcake) = Len(card_matches)
        /\ \A i \in 1..Len(card_matches) : card_matches[i].pay_type \in PayTypes
        /\ \A t \in PayTypes :
              /\ MatchesOfType(t) = UsedOfType(t)
              /\ MatchesOfType(t) <= CandidatesOfType(t)
              /\ MatchesOfType(t) <= CardsOfType(t)

\* two card rows of one pay type and amount wanted the only candidate: the
\* first took it and the second found none left
C8_Witness ==
    /\ pc = "card_loop"
    /\ card_i = 3
    /\ Len(hotcake_card_candidates) = 1
    /\ used_hotcake = {1}
    /\ Len(card_matches) = 1
    /\ Len(card_mismatches) = 1
    /\ card_mismatches[1].pay_type = card_matches[1].pay_type
    /\ card_mismatches[1].amount = card_matches[1].card_amount
    /\ card_mismatches[1].nearest_time = None

\* C10: a call whose inputs are those of an earlier call returns the result
\* that call returned, whatever calls were made in between; and the
\* consumption sets used_pos and used_hotcake are empty when the loops of a
\* call begin.
C10_NoStateBetweenCalls ==
    /\ (Done /\ earlier_call # None /\ earlier_call[1].args = args)
           => result[1] = earlier_call[1].result
    /\ (pc = "cash_loop" /\ order_i = 1) => used_pos = {}
    /\ (pc = "card_loop" /\ card_i = 1) => used_hotcake = {}

\* the earlier call consumed a POS row and a tender candidate, a call of
\* other inputs followed it, and the call with its inputs has consumed them
\* again
C10_Witness ==
    /\ Done
    /\ earlier_call # None
    /\ earlier_call[1].args = args
    /\ earlier_call[1].other_between
    /\ result[1] = earlier_call[1].result
    /\ result[1].card_matches # <<>>
    /\ used_pos # {}
    /\ used_hotcake # {}
    /\ scoped_orders # <<>>
    /\ Len(hotcake_time_mismatches) < Len(scoped_orders)

\* two calls whose arguments differ at most in time_tolerance_minutes
SameButTolerance(a, b) ==
    [a EXCEPT !.time_tolerance_minutes = 0] =
        [b EXCEPT !.time_tolerance_minutes = 0]

\* C11: two calls that differ in time_tolerance_minutes alone return the
\* same totals, field by field, and the same missing_bills,
\* service_bill_rows, topup_bill_rows and card_machine_rows, whatever each of
\* them matched.
C11_TotalsIgnoreMatching ==
    (Done /\ earlier_call # None /\ SameButTolerance(earlier_call[1].args, args))
    => LET was == earlier_call[1].result
           now == result[1]
       IN /\ now.totals = was.totals
          /\ now.missing_bills = was.missing_bills
          /\ now.service_bill_rows = was.service_bill_rows
          /\ now.topup_bill_rows = was.topup_bill_rows
          /\ now.card_machine_rows = was.card_machine_rows

\* the two calls matched differently, in the cash pass and in the card pass,
\* and returned the same totals
C11_Witness ==
    /\ Done
    /\ earlier_call # None
    /\ SameButTolerance(earlier_call[1].args, args)
    /\ earlier_call[1].args.time_tolerance_minutes # args.time_tolerance_minutes
    /\ result[1].hotcake_time_mismatches
           # earlier_call[1].result.hotcake_time_mismatches
    /\ result[1].pos_time_mismatches # earlier_call[1].result.pos_time_mismatches
    /\ result[1].card_matches # earlier_call[1].result.card_matches
    /\ result[1].totals = earlier_call[1].result.totals
    /\ result[1].totals.pos_cash_total # None
    /\ result[1].totals.card_machine_total # None
    /\ result[1].totals.hotcake_topup_cash > 0

\* the cash loop is about to process an order that has a designer
ProcessingDesignerOrder ==
    /\ pc = "cash_loop"
    /\ order_i <= Len(scoped_orders)
    /\ NameKey(scoped_orders[order_i].designer) # <<>>

\* the step accepts the order: it consumes a POS row and leaves no mismatch
StepAccepts ==
    /\ used_pos' # used_pos
    /\ hotcake_time_mismatches' = hotcake_time_mismatches

\* the seconds between a POS row and the start of an order
Distance(o, p) == Abs(p.created_time - o.service_start)

\* the aggregated cash of an order: the cash of the scoped service-bill rows
\* of its bill id
AggregatedCash(o) == CashOfBill(service_bill_rows, o.bill_id)

\* the unused scoped POS rows of the designer of o, of compatible duration
CandidatesOf(o) ==
    {idx \in (1..Len(scoped_pos)) \ used_pos :
        /\ PosDesignerKey(scoped_pos[idx]) = NameKey(o.designer)
        /\ DurationsCompatible(o.service, scoped_pos[idx].product_name)}

\* the nearest of a set of POS rows, the first of them in the POS input when
\* several are as near
NearestOf(o, idxs) ==
    CHOOSE n \in idxs :
        \A m \in idxs :
            \/ Distance(o, scoped_pos[n]) < Distance(o, scoped_pos[m])
            \/ (Distance(o, scoped_pos[n]) = Distance(o, scoped_pos[m])
                /\ n <= m)

WithinToleranceOf(o, p) ==
    Distance(o, p) <= args.time_tolerance_minutes * SECONDS_PER_MINUTE

NearestCandidateAcceptable(o) ==
    /\ CandidatesOf(o) # {}
    /\ LET p == scoped_pos[NearestOf(o, CandidatesOf(o))]
       IN /\ WithinToleranceOf(o, p)
          /\ p.cash_paid = AggregatedCash(o)

\* C12: an in-scope order with a designer is accepted (a POS row is consumed
\* and no mismatch row is added) if and only if its nearest unused candidate,
\* of the same designer and of compatible duration, is within the tolerance
\* (a distance equal to the tolerance included) and has cash_paid equal to
\* the aggregated cash of the order.
C12_AcceptIffNearestAcceptable ==
    [][ProcessingDesignerOrder =>
           (StepAccepts <=> NearestCandidateAcceptable(scoped_orders[order_i]))
      ]_vars

\* an order of 60 minutes is about to be processed, and the only unused POS
\* row of its designer says 90 minutes, at the very time and with the very
\* cash of the order
C12_Witness ==
    /\ ProcessingDesignerOrder
    /\ LET o == scoped_orders[order_i]
       IN /\ CandidatesOf(o) = {}
          /\ DurationOf(o.service) = Some(60)
          /\ \E idx \in (1..Len(scoped_pos)) \ used_pos :
                /\ PosDesignerKey(scoped_pos[idx]) = NameKey(o.designer)
                /\ DurationOf(scoped_pos[idx].product_name) = Some(90)
                /\ Distance(o, scoped_pos[idx]) = 0
                /\ scoped_pos[idx].cash_paid = AggregatedCash(o)

\* the candidates of o that satisfy the conditions of a match
AcceptableCandidatesOf(o) ==
    {idx \in CandidatesOf(o) :
        /\ WithinToleranceOf(o, scoped_pos[idx])
        /\ scoped_pos[idx].cash_paid = AggregatedCash(o)}

\* C13: whenever an order with a designer is processed while an unused POS
\* row of its designer and of compatible duration is within the tolerance
\* and has cash_paid equal to the aggregated cash of the order, the order is
\* accepted, even if a candidate of other cash is nearer.
C13_BestAmongAcceptable ==
    [][(ProcessingDesignerOrder
        /\ AcceptableCandidatesOf(scoped_orders[order_i]) # {})
       => StepAccepts]_vars

\* an order is about to be processed with a candidate that satisfies the
\* conditions and a nearer candidate of other cash, all of one duration
C13_Witness ==
    /\ ProcessingDesignerOrder
    /\ LET o == scoped_orders[order_i]
       IN \E good \in AcceptableCandidatesOf(o) :
             \E near \in CandidatesOf(o) :
                /\ Distance(o, scoped_pos[near]) < Distance(o, scoped_pos[good])
                /\ scoped_pos[near].cash_paid # AggregatedCash(o)
                /\ DurationOf(scoped_pos[near].product_name)
                       = DurationOf(o.service)
                /\ DurationOf(scoped_pos[good].product_name)
                       = DurationOf(o.service)

\* the elements of a sequence at the positions of a set, in order
RECURSIVE Restrict(_, _, _)
Restrict(seq, S, i) ==
    IF i > Len(seq) THEN <<>>
    ELSE (IF i \in S THEN <<seq[i]>> ELSE <<>>) \o Restrict(seq, S, i + 1)

\* what a Hotcake-side mismatch row says of its order
OrderFields(r) ==
    [store |-> r.store, service_start |-> r.service_start,
     designer |-> r.designer, service |-> r.service, bill_id |-> r.bill_id,
     bill_amount |-> r.bill_amount]

OrderFieldsOf(rows) == [i \in 1..Len(rows) |-> OrderFields(rows[i])]

\* the context of a Hotcake-side mismatch row: none, or the time and the cash
\* of a scoped POS row of the designer of the order
ContextFromCandidate(m) ==
    \/ m.nearest_pos_time = None /\ m.cash_diff = None
    \/ \E i \in 1..Len(ScopedPosOf) :
          /\ PosDesignerKey(ScopedPosOf[i]) = NameKey(m.designer)
          /\ m.nearest_pos_time = Some(ScopedPosOf[i].created_time)
          /\ m.cash_diff = Some(ScopedPosOf[i].cash_paid - m.cash)

\* C14: when POS data is supplied, the orders in scope are those accepted,
\* each having consumed one scoped POS row, and those of
\* hotcake_time_mismatches, each there once and in input order, also when no
\* supplied POS row is in the period; a mismatch row carries the time of a
\* candidate and the difference of its cash_paid from the aggregated cash of
\* the order, or no context.
C14_UnmatchedOrdersReported ==
    (Done /\ args.pos_orders # None)
    => LET rows == result[1].hotcake_time_mismatches
           consumed == Len(ScopedPosOf) - Len(result[1].pos_time_mismatches)
       IN /\ Len(rows) = Len(ScopedOrdersOf) - consumed
          /\ \E S \in SUBSET (1..Len(ScopedOrdersOf)) :
                OrderFieldsOf(rows)
                    = OrderFieldsOf(Restrict(ScopedOrdersOf, S, 1))
          /\ \A i \in 1..Len(rows) :
                /\ rows[i].cash = CashOfBill(result[1].service_bill_rows,
                                             rows[i].bill_id)
                /\ ContextFromCandidate(rows[i])

\* POS rows were supplied, none of them in the period, and the order in
\* scope is not reported
C14_Witness ==
    /\ Done
    /\ args.pos_orders # None
    /\ args.pos_orders[1] # <<>>
    /\ ScopedPosOf = <<>>
    /\ ScopedOrdersOf # <<>>
    /\ result[1].hotcake_time_mismatches = <<>>

\* the cash pass is over
AfterCashPass == pc \in {"return", "done"}

\* the scoped POS rows that no order consumed, in input order
UnconsumedPos ==
    Restrict(ScopedPosOf, (1..Len(ScopedPosOf)) \ used_pos, 1)

\* the in-scope orders of the designer of a POS row
OrdersOfDesigner(p) ==
    {j \in 1..Len(ScopedOrdersOf) :
        NameKey(ScopedOrdersOf[j].designer) = PosDesignerKey(p)}

\* the context of POS-side mismatch row m of POS row p: that of an order of
\* its designer than which none is nearer, none when it has no order
ContextFromNearestOrder(m, p) ==
    IF OrdersOfDesigner(p) = {}
    THEN /\ m.nearest_hotcake_time = None
         /\ m.nearest_diff_minutes = None
         /\ m.cash_diff = None
    ELSE \E n \in OrdersOfDesigner(p) :
            LET o == ScopedOrdersOf[n]
            IN /\ \A j \in OrdersOfDesigner(p) :
                      Distance(o, p) <= Distance(ScopedOrdersOf[j], p)
               /\ m.nearest_hotcake_time = Some(o.service_start)
               /\ m.nearest_diff_minutes # None
               /\ m.cash_diff = Some(p.cash_paid - AggregatedCash(o))

\* C15: once the orders are processed, pos_time_mismatches holds the scoped
\* POS rows that no order consumed, each once and in POS input order, and no
\* consumed row; each row takes its context from the nearest in-scope order
\* of its designer, however far, and none when there is no such order; the
\* consumed rows are those the orders consumed.
C15_PosLeftovers ==
    AfterCashPass =>
        /\ Len(pos_time_mismatches) = Len(UnconsumedPos)
        /\ \A i \in 1..Len(pos_time_mismatches) :
              LET m == pos_time_mismatches[i]
                  p == UnconsumedPos[i]
              IN /\ m.created_time = p.created_time
                 /\ m.product_name = p.product_name
                 /\ m.terminal_name = p.terminal_name
                 /\ m.cash_paid = p.cash_paid
                 /\ m.reason = TIME_OR_AMOUNT
                 /\ ContextFromNearestOrder(m, p)
        /\ Cardinality(used_pos)
               = Len(scoped_orders) - Len(hotcake_time_mismatches)
             \/ ScopedPosOf = <<>>

\* one POS row was consumed and another was not; the nearest order of the
\* row left over is farther than the tolerance and is its context
C15_Witness ==
    /\ pc = "done"
    /\ used_pos # {}
    /\ Len(pos_time_mismatches) = 1
    /\ Len(ScopedPosOf) = 2
    /\ pos_time_mismatches[1].nearest_hotcake_time # None
    /\ Abs(pos_time_mismatches[1].created_time
           - pos_time_mismatches[1].nearest_hotcake_time[1])
          > args.time_tolerance_minutes * SECONDS_PER_MINUTE

\* the cash loop is about to process an order that has no designer
ProcessingBlankOrder ==
    /\ pc = "cash_loop"
    /\ order_i <= Len(scoped_orders)
    /\ NameKey(scoped_orders[order_i].designer) = <<>>

\* C16: an in-scope order whose designer is empty once spaces and full-width
\* spaces are removed leaves one Hotcake-side mismatch row, with the
\* designer-missing reason and no nearest-POS context, and the set of used
\* POS rows is as it was.
C16_DesignerMissing ==
    [][ProcessingBlankOrder =>
           /\ used_pos' = used_pos
           /\ Len(hotcake_time_mismatches')
                  = Len(hotcake_time_mismatches) + 1
           /\ SubSeq(hotcake_time_mismatches', 1, Len(hotcake_time_mismatches))
                  = hotcake_time_mismatches
           /\ LET m == hotcake_time_mismatches'[Len(hotcake_time_mismatches')]
              IN /\ OrderFields(m) = OrderFields(scoped_orders[order_i])
                 /\ m.reason = DESIGNER_MISSING
                 /\ m.nearest_pos_time = None
                 /\ m.nearest_diff_minutes = None
                 /\ m.cash_diff = None
      ]_vars

\* an order whose designer is spaces was processed while an unused POS row
\* with no designer was at its very time with its very cash: the row is
\* still unused and the order is reported as missing its designer
C16_Witness ==
    /\ pc = "cash_loop"
    /\ order_i = 2
    /\ scoped_orders[1].designer = DESIGNER_BLANK
    /\ used_pos = {}
    /\ Len(hotcake_time_mismatches) = 1
    /\ hotcake_time_mismatches[1].reason = DESIGNER_MISSING
    /\ \E idx \in 1..Len(scoped_pos) :
          /\ PosDesignerKey(scoped_pos[idx]) = <<>>
          /\ Distance(scoped_orders[1], scoped_pos[idx]) = 0
          /\ scoped_pos[idx].cash_paid = AggregatedCash(scoped_orders[1])

\* C17: _extract_minutes returns the N of a text that embeds "<N><FEN><ZHONG>"
\* and None for a text without it, the empty text included.
C17_ExtractMinutes ==
    pc = "extracted" => result[1] = DurationOf(args)

\* the service text "cut 60<FEN><ZHONG>" was given and None came back
C17_Witness ==
    /\ pc = "extracted"
    /\ args = SERVICE_60
    /\ DurationOf(args) = Some(60)
    /\ result[1] = None

\* C18: the POS row an order consumes was unused, has the normalised
\* designer of the order and a compatible duration (one of the two has none,
\* or they are equal); so an order of 60 minutes never consumes a POS row of
\* 90 minutes of its designer.
C18_CandidateConditions ==
    [][(ProcessingDesignerOrder /\ used_pos' # used_pos)
       => \E idx \in CandidatesOf(scoped_orders[order_i]) :
             used_pos' = used_pos \cup {idx}]_vars

\* an order of 60 minutes has consumed the POS row of 90 minutes of its
\* designer
C18_Witness ==
    /\ pc = "cash_loop"
    /\ order_i = 2
    /\ DurationOf(scoped_orders[1].service) = Some(60)
    /\ \E idx \in used_pos :
          /\ DurationOf(scoped_pos[idx].product_name) = Some(90)
          /\ PosDesignerKey(scoped_pos[idx]) = NameKey(scoped_orders[1].designer)

\* the card loop is about to process a card row of a recognised pay type
ProcessingRecognisedCard ==
    /\ pc = "card_loop"
    /\ card_i <= Len(scoped_card)
    /\ _normalize_pay_method(scoped_card[card_i].pay_method) \in PayTypes

\* the seconds between a card row and the settlement of a tender candidate
CardDistance(card, h) == Abs(card.transaction_time - h.time)

\* the unused tender candidates of the pay type and of the amount of a card
MatchingTenders(card) ==
    {idx \in (1..Len(hotcake_card_candidates)) \ used_hotcake :
        /\ hotcake_card_candidates[idx].pay_type
               = _normalize_pay_method(card.pay_method)
        /\ hotcake_card_candidates[idx].amount = card.paid_amount}

\* those of them than which none is nearer
NearestTenders(card) ==
    {n \in MatchingTenders(card) :
        \A m \in MatchingTenders(card) :
            CardDistance(card, hotcake_card_candidates[n])
                <= CardDistance(card, hotcake_card_candidates[m])}

CardAcceptable(card) ==
    \E n \in NearestTenders(card) :
        CardDistance(card, hotcake_card_candidates[n])
            <= args.time_tolerance_minutes * SECONDS_PER_MINUTE

\* C19: a scoped card row of a recognised pay type is accepted if and only if
\* an unused tender candidate of its pay type and of its amount exists and
\* the nearest of them is within the tolerance; it then consumes that nearest
\* candidate alone and adds one card_matches row, of equal pay type, equal
\* amounts and a time difference within the tolerance; otherwise it consumes
\* nothing and adds no match.
C19_CardAcceptIff ==
    [][ProcessingRecognisedCard =>
          LET card == scoped_card[card_i]
          IN IF CardAcceptable(card)
             THEN /\ \E n \in NearestTenders(card) :
                        /\ used_hotcake' = used_hotcake \cup {n}
                        /\ card_matches'[Len(card_matches')].bill_id
                               = hotcake_card_candidates[n].bill_id
                        /\ card_matches'[Len(card_matches')].hotcake_time
                               = hotcake_card_candidates[n].time
                  /\ Len(card_matches') = Len(card_matches) + 1
                  /\ card_mismatches' = card_mismatches
                  /\ LET m == card_matches'[Len(card_matches')]
                     IN /\ m.pay_type = _normalize_pay_method(card.pay_method)
                        /\ m.hotcake_amount = m.card_amount
                        /\ m.card_amount = card.paid_amount
                        /\ m.card_time = card.transaction_time
                        /\ Abs(m.card_time - m.hotcake_time)
                               <= args.time_tolerance_minutes
                                     * SECONDS_PER_MINUTE
             ELSE /\ used_hotcake' = used_hotcake
                  /\ card_matches' = card_matches
                  /\ Len(card_mismatches') = Len(card_mismatches) + 1
      ]_vars

\* of two unused candidates of the pay type and amount of the card, the
\* second in the list was the nearer and is the one consumed
C19_Witness ==
    /\ pc = "card_loop"
    /\ card_i = 2
    /\ Len(card_matches) = 1
    /\ used_hotcake = {2}
    /\ hotcake_card_candidates[1].pay_type = hotcake_card_candidates[2].pay_type
    /\ hotcake_card_candidates[1].amount = hotcake_card_candidates[2].amount
    /\ card_matches[1].hotcake_time = hotcake_card_candidates[2].time
    /\ card_matches[1].hotcake_amount = scoped_card[1].paid_amount

\* the card loop is about to process a card row of no recognised pay type
ProcessingUnrecognisedCard ==
    /\ pc = "card_loop"
    /\ card_i <= Len(scoped_card)
    /\ _normalize_pay_method(scoped_card[card_i].pay_method) \notin PayTypes

\* C20: a scoped card row whose payment method is neither credit card nor
\* LINE Pay adds one card_mismatches row, of source "card", with an empty
\* bill_id and no nearest time or distance; it adds no match and consumes no
\* tender candidate.
C20_UnrecognisedCard ==
    [][ProcessingUnrecognisedCard =>
           /\ used_hotcake' = used_hotcake
           /\ card_matches' = card_matches
           /\ Len(card_mismatches') = Len(card_mismatches) + 1
           /\ SubSeq(card_mismatches', 1, Len(card_mismatches))
                  = card_mismatches
           /\ LET m == card_mismatches'[Len(card_mismatches')]
                  card == scoped_card[card_i]
              IN /\ m.source = "card"
                 /\ m.bill_id = ""
                 /\ m.nearest_time = None
                 /\ m.nearest_diff_minutes = None
                 /\ m.amount = card.paid_amount
                 /\ m.time = card.transaction_time
                 /\ m.store = card.store
      ]_vars

\* a card row paid otherwise was processed while an unused tender candidate
\* had its amount and its time: the candidate is still unused
C20_Witness ==
    /\ pc = "card_loop"
    /\ card_i = 2
    /\ _normalize_pay_method(scoped_card[1].pay_method) \notin PayTypes
    /\ used_hotcake = {}
    /\ card_matches = <<>>
    /\ Len(card_mismatches) = 1
    /\ card_mismatches[1].source = "card"
    /\ \E idx \in 1..Len(hotcake_card_candidates) :
          /\ hotcake_card_candidates[idx].amount = scoped_card[1].paid_amount
          /\ hotcake_card_candidates[idx].time = scoped_card[1].transaction_time

ScopedCardOf ==
    IF args.card_machine_rows = None THEN <<>>
    ELSE SelectSeq(args.card_machine_rows[1], CardInScope)

\* the tenders of the returned service-bill rows: one for each positive
\* credit_card amount and one for each positive linepay amount
TendersOf(rows) ==
    {<<i, CREDIT_CARD>> : i \in {j \in 1..Len(rows) : rows[j].credit_card > 0}}
    \cup {<<i, LINEPAY>> : i \in {j \in 1..Len(rows) : rows[j].linepay > 0}}

SourceCount(rows, source) ==
    Cardinality({i \in 1..Len(rows) : rows[i].source = source})

\* a mismatch row of the Hotcake side is a tender of a returned service row
IsTenderOf(m, rows) ==
    \E i \in 1..Len(rows) :
        /\ m.bill_id = rows[i].bill_id
        /\ m.time = rows[i].settlement_time
        /\ \/ m.pay_type = CREDIT_CARD /\ m.amount = rows[i].credit_card
           \/ m.pay_type = LINEPAY /\ m.amount = rows[i].linepay

\* C21: when card-machine data is supplied, the scoped card rows are as many
\* as the matches and the mismatch rows of source "card", the tenders of the
\* scoped service bills are as many as the matches and the mismatch rows of
\* source "hotcake" (each of these a tender), also when no supplied card row
\* is in the store and period, and the rows of source "card" come before
\* those of source "hotcake".
C21_CardPassAccountsForAll ==
    (Done /\ args.card_machine_rows # None)
    => LET r == result[1]
       IN /\ Len(r.card_matches) + SourceCount(r.card_mismatches, "card")
                 = Len(ScopedCardOf)
          /\ Len(r.card_matches) + SourceCount(r.card_mismatches, "hotcake")
                 = Cardinality(TendersOf(r.service_bill_rows))
          /\ \A i \in 1..Len(r.card_mismatches) :
                /\ r.card_mismatches[i].source \in {"card", "hotcake"}
                /\ r.card_mismatches[i].source = "hotcake"
                       => IsTenderOf(r.card_mismatches[i], r.service_bill_rows)
          /\ \A i, j \in 1..Len(r.card_mismatches) :
                (/\ r.card_mismatches[i].source = "hotcake"
                 /\ r.card_mismatches[j].source = "card") => j < i

\* card rows were supplied, none of them in the store and period, and the
\* tender of the scoped service bill is not reported
C21_Witness ==
    /\ Done
    /\ args.card_machine_rows # None
    /\ args.card_machine_rows[1] # <<>>
    /\ ScopedCardOf = <<>>
    /\ TendersOf(result[1].service_bill_rows) # {}
    /\ result[1].card_mismatches = <<>>
    /\ result[1].totals.card_machine_total = Some(0)

\* a method text without its spaces and underscores, in lower case
PayKey(text) ==
    Lower(SelectSeq(text, LAMBDA c : c \notin {" ", "_"}))

HasCreditMarker(text) ==
    \/ Contains(text, <<XIN, YONG, KA>>)
    \/ Contains(PayKey(text), <<"c", "r", "e", "d", "i", "t">>)
    \/ Contains(PayKey(text), <<"c", "a", "r", "d">>)

HasLineAndPay(text) ==
    /\ Contains(PayKey(text), <<"l", "i", "n", "e">>)
    /\ Contains(PayKey(text), <<"p", "a", "y">>)

Normalized == pc = "normalized"

\* C22: the credit-card markers are checked first: a method text with one of
\* them is credit_card, also when it contains "line" and "pay"; a text with
\* "line" and "pay" and no credit-card marker is linepay; any other text is
\* unrecognized.
C22_CreditMarkersFirst ==
    Normalized
    => result = Some(IF HasCreditMarker(args) THEN CREDIT_CARD
                     ELSE IF HasLineAndPay(args) THEN LINEPAY
                     ELSE "")

\* a text with a credit-card marker and with "line" and "pay" has been
\* normalized to linepay
C22_Witness ==
    /\ Normalized
    /\ HasCreditMarker(args)
    /\ HasLineAndPay(args)
    /\ result = Some(LINEPAY)

\* C22 as the code has it: "line" and "pay" are checked first: a method text
\* that contains both (ignoring case, spaces and underscores) is linepay,
\* also when it has a credit-card marker; a text with a credit-card marker
\* and not both of "line" and "pay" is credit_card; any other text is
\* unrecognized.
C22_LinePayFirst ==
    Normalized
    => result = Some(IF HasLineAndPay(args) THEN LINEPAY
                     ELSE IF HasCreditMarker(args) THEN CREDIT_CARD
                     ELSE "")

\* the tender records of the first n rows of a list of bill rows: for each
\* row its credit-card record when the amount is positive, then its LINE Pay
\* record when the amount is positive
TenderRecord(r, t, amount) ==
    [bill_id |-> r.bill_id, pay_type |-> t, amount |-> amount,
     time |-> r.settlement_time]

RECURSIVE TenderRecords(_, _)
TenderRecords(rows, n) ==
    IF n = 0 THEN <<>>
    ELSE TenderRecords(rows, n - 1)
         \o (IF rows[n].credit_card > 0
             THEN <<TenderRecord(rows[n], CREDIT_CARD, rows[n].credit_card)>>
             ELSE <<>>)
         \o (IF rows[n].linepay > 0
             THEN <<TenderRecord(rows[n], LINEPAY, rows[n].linepay)>>
             ELSE <<>>)

ReferencedService == SelectSeq(args.bills.service, Referenced)

\* C23: the Hotcake candidates of the card pass are the tenders of the
\* service bill rows in scope and of no top-up row: of each row one
\* credit_card candidate exactly when its credit_card amount is positive and
\* one linepay candidate exactly when its linepay amount is positive, with
\* the row's bill_id, amount and settlement_time.
C23_TenderCandidates ==
    pc = "card_loop"
    => hotcake_card_candidates
           = TenderRecords(ReferencedService, Len(ReferencedService))

\* a service bill that no in-scope order carries and a top-up bill in scope,
\* both paid by card, give no candidate, and the service bill in scope paid
\* by card and by LINE Pay gives two
C23_Witness ==
    /\ pc = "card_loop"
    /\ Len(args.bills.service) = 2
    /\ ~ Referenced(args.bills.service[1])
    /\ args.bills.service[1].credit_card > 0
    /\ Referenced(args.bills.service[2])
    /\ args.bills.service[2].credit_card > 0
    /\ args.bills.service[2].linepay > 0
    /\ \E i \in 1..Len(args.bills.topup) :
          /\ TopUpInScope(args.bills.topup[i])
          /\ args.bills.topup[i].credit_card > 0
    /\ Len(hotcake_card_candidates) = 2
    /\ hotcake_card_candidates[1].bill_id = args.bills.service[2].bill_id
    /\ hotcake_card_candidates[2].bill_id = args.bills.service[2].bill_id

PosCandidateRows == [i \in 1..Len(pos_candidates) |-> pos_candidates[i].row]

\* C24: the POS rows counted in pos_cash_total and given to the cash pass
\* are those whose created_time is in the period, whatever their terminal
\* name; the card rows returned in card_machine_rows and counted in
\* card_machine_total are those whose normalized store is the requested
\* store and whose transaction_time is in the period.
C24_PosAndCardScoping ==
    Done =>
        /\ args.pos_orders # None =>
              /\ result[1].totals.pos_cash_total
                     = Some(FieldSum(ScopedPosOf, "cash_paid"))
              /\ PosCandidateRows = ScopedPosOf
        /\ args.card_machine_rows # None =>
              /\ result[1].card_machine_rows = ScopedCardOf
              /\ result[1].totals.card_machine_total
                     = Some(FieldSum(ScopedCardOf, "paid_amount"))

\* of two POS rows of a terminal of another store the one in the period is
\* counted and the one after the period is not, and a card row of another
\* store in the period is not counted
C24_Witness ==
    /\ Done
    /\ args.pos_orders # None
    /\ Len(args.pos_orders[1]) = 2
    /\ StoreKey(args.pos_orders[1][1].terminal_name) # StoreKey(args.store)
    /\ InPeriod(args.pos_orders[1][1].created_time)
    /\ args.pos_orders[1][2].created_time > args.period.end
    /\ PosCandidateRows = <<args.pos_orders[1][1]>>
    /\ result[1].totals.pos_cash_total = Some(args.pos_orders[1][1].cash_paid)
    /\ args.card_machine_rows # None
    /\ Len(args.card_machine_rows[1]) = 1
    /\ InPeriod(args.card_machine_rows[1][1].transaction_time)
    /\ StoreKey(args.card_machine_rows[1][1].store) # StoreKey(args.store)
    /\ result[1].card_machine_rows = <<>>
    /\ result[1].totals.card_machine_total = Some(0)

\* two calls whose arguments differ at most in card_machine_rows
SameButCards(a, b) ==
    [a EXCEPT !.card_machine_rows = None] =
        [b EXCEPT !.card_machine_rows = None]

\* two calls whose arguments differ at most in pos_orders
SameButPos(a, b) ==
    [a EXCEPT !.pos_orders = None] = [b EXCEPT !.pos_orders = None]

\* C25: two calls that differ in card_machine_rows alone (supplied or not)
\* return the same hotcake_time_mismatches and pos_time_mismatches, and two
\* calls that differ in pos_orders alone return the same card_matches and
\* card_mismatches: neither pass consumes from the pool of the other.
C25_IndependentPools ==
    (Done /\ earlier_call # None)
    => LET a == earlier_call[1].result
           b == result[1]
       IN /\ SameButCards(earlier_call[1].args, args)
                => /\ b.hotcake_time_mismatches = a.hotcake_time_mismatches
                   /\ b.pos_time_mismatches = a.pos_time_mismatches
          /\ SameButPos(earlier_call[1].args, args)
                => /\ b.card_matches = a.card_matches
                   /\ b.card_mismatches = a.card_mismatches

\* the call without card data and the call with a card row that consumed a
\* tender candidate left the same rows of the cash pass, which consumed one
\* POS row of two
C25_Witness ==
    /\ Done
    /\ earlier_call # None
    /\ SameButCards(earlier_call[1].args, args)
    /\ earlier_call[1].args.card_machine_rows = None
    /\ args.card_machine_rows # None
    /\ used_hotcake # {}
    /\ result[1].card_matches # <<>>
    /\ earlier_call[1].result.card_matches = <<>>
    /\ used_pos # {}
    /\ result[1].pos_time_mismatches # <<>>
    /\ result[1].pos_time_mismatches = earlier_call[1].result.pos_time_mismatches
    /\ result[1].hotcake_time_mismatches
           = earlier_call[1].result.hotcake_time_mismatches

\* build_cash_recon has been called
Called == pc \notin {"app_run", "cli_main", "stopped", "raised"}

\* C26: both callers, the interactive app and the command line, reject a
\* start later than the end, so that build_cash_recon never runs with
\* period.start > period.end.
C26_CallersEnforcePeriod ==
    Called => args.period.start <= args.period.end

\* build_cash_recon has returned for a period whose start is later than its
\* end
C26_Witness ==
    /\ Done
    /\ args.period.start > args.period.end
    /\ result[1].period = args.period

\* the first of a set of positions of a list
FirstOf(S) == CHOOSE n \in S : \A m \in S : n <= m

\* the candidates of o than which none is nearer
NearestCandidates(o) ==
    {n \in CandidatesOf(o) :
        \A m \in CandidatesOf(o) :
            Distance(o, scoped_pos[n]) <= Distance(o, scoped_pos[m])}

\* C27: in both passes, of the unused candidates at the least time distance
\* from the record being processed the first of the list (the POS input for
\* the cash pass, the service bills for the card pass) is the best: it is
\* the one consumed on acceptance, and the one whose time and cash the
\* mismatch row carries otherwise.
C27_TiesByListOrder ==
    [][/\ (ProcessingDesignerOrder
           /\ CandidatesOf(scoped_orders[order_i]) # {})
          => LET o == scoped_orders[order_i]
                 best == scoped_pos[FirstOf(NearestCandidates(o))]
                 m == hotcake_time_mismatches'[Len(hotcake_time_mismatches')]
             IN IF used_pos' # used_pos
                THEN /\ used_pos' = used_pos \cup {FirstOf(NearestCandidates(o))}
                     /\ hotcake_time_mismatches' = hotcake_time_mismatches
                ELSE /\ Len(hotcake_time_mismatches')
                            = Len(hotcake_time_mismatches) + 1
                     /\ m.nearest_pos_time = Some(best.created_time)
                     /\ m.cash_diff = Some(best.cash_paid - AggregatedCash(o))
       /\ (ProcessingRecognisedCard
           /\ MatchingTenders(scoped_card[card_i]) # {})
          => LET card == scoped_card[card_i]
                 first == FirstOf(NearestTenders(card))
                 m == card_mismatches'[Len(card_mismatches')]
             IN IF used_hotcake' # used_hotcake
                THEN /\ used_hotcake' = used_hotcake \cup {first}
                     /\ card_matches'[Len(card_matches')].hotcake_time
                            = hotcake_card_candidates[first].time
                ELSE /\ Len(card_mismatches') = Len(card_mismatches) + 1
                     /\ m.nearest_time
                            = Some(hotcake_card_candidates[first].time)
      ]_vars

\* the first card row was as near to the second tender as to the first, the
\* first order as near to the second POS row as to the first, each of the
\* two could have been accepted, and the first of each pair alone is consumed
C27_Witness ==
    /\ Done
    /\ Len(scoped_card) = 1
    /\ Len(hotcake_card_candidates) = 2
    /\ hotcake_card_candidates[1].pay_type = hotcake_card_candidates[2].pay_type
    /\ hotcake_card_candidates[1].amount = hotcake_card_candidates[2].amount
    /\ hotcake_card_candidates[1].time # hotcake_card_candidates[2].time
    /\ CardDistance(scoped_card[1], hotcake_card_candidates[1])
           = CardDistance(scoped_card[1], hotcake_card_candidates[2])
    /\ used_hotcake = {1}
    /\ Len(scoped_orders) = 1
    /\ Len(scoped_pos) = 2
    /\ scoped_pos[1].created_time # scoped_pos[2].created_time
    /\ Distance(scoped_orders[1], scoped_pos[1])
           = Distance(scoped_orders[1], scoped_pos[2])
    /\ scoped_pos[1].cash_paid = scoped_pos[2].cash_paid
    /\ PosDesignerKey(scoped_pos[1]) = PosDesignerKey(scoped_pos[2])
    /\ used_pos = {1}

\* C28: when at least one POS row is in scope, the in-scope orders less the
\* rows of hotcake_time_mismatches are as many as the scoped POS rows less
\* the rows of pos_time_mismatches, and both are the number of accepted
\* matches; and after any number of orders of the loop, the orders processed
\* less the mismatch rows written are as many as the POS rows consumed.
C28_CashConservation ==
    /\ (Done /\ ScopedPosOf # <<>>)
          => LET accepted == Len(ScopedOrdersOf)
                                 - Len(result[1].hotcake_time_mismatches)
             IN /\ accepted = Len(ScopedPosOf)
                                  - Len(result[1].pos_time_mismatches)
                /\ accepted = Cardinality(used_pos)
                /\ accepted >= 0
    /\ (pc = "cash_loop" /\ ScopedPosOf # <<>>)
          => /\ order_i - 1 <= Len(ScopedOrdersOf)
             /\ (order_i - 1) - Len(hotcake_time_mismatches)
                    = Len(ScopedPosOf) - Len(UnconsumedPos)
             /\ pos_time_mismatches = <<>>

\* of two orders and two POS rows in scope one pair was accepted, and each
\* side has one mismatch row
C28_Witness ==
    /\ Done
    /\ Len(ScopedOrdersOf) = 2
    /\ Len(ScopedPosOf) = 2
    /\ Len(result[1].hotcake_time_mismatches) = 1
    /\ Len(result[1].pos_time_mismatches) = 1
    /\ Cardinality(used_pos) = 1

\* C29: a row of hotcake_time_mismatches that has the generic reason and a
\* nearest POS row reports a nearest_diff_minutes greater than
\* time_tolerance_minutes or a cash_diff other than 0.
C29_ContextExplainsRejection ==
    Done =>
        \A i \in 1..Len(result[1].hotcake_time_mismatches) :
            LET m == result[1].hotcake_time_mismatches[i]
            IN (m.reason = TIME_OR_AMOUNT /\ m.nearest_pos_time # None)
               => \/ m.nearest_diff_minutes[1] > args.time_tolerance_minutes
                  \/ m.cash_diff[1] # 0

\* an order was refused for a POS row of its cash that is farther than the
\* tolerance by less than a minute, and its row reports the tolerance itself
\* and no difference of cash
C29_Witness ==
    /\ Done
    /\ \E i \in 1..Len(result[1].hotcake_time_mismatches) :
          LET m == result[1].hotcake_time_mismatches[i]
          IN /\ m.reason = TIME_OR_AMOUNT
             /\ m.nearest_pos_time # None
             /\ Abs(m.nearest_pos_time[1] - m.service_start)
                    > args.time_tolerance_minutes * SECONDS_PER_MINUTE
             /\ m.nearest_diff_minutes = Some(args.time_tolerance_minutes)
             /\ m.cash_diff = Some(0)

\* the bill ids that in-scope orders carry
InScopeBillIds ==
    {args.orders[i].bill_id :
        i \in {j \in 1..Len(args.orders) : InScope(args.orders[j])}} \ {""}

RowsOfBill(rows, bill_id) ==
    Cardinality({i \in 1..Len(rows) : rows[i].bill_id = bill_id})

\* C30: of each bill id the returned service_bill_rows hold the supplied
\* service rows once each when an in-scope order carries the id, however
\* many orders carry it and whatever the store of the row, and none
\* otherwise; hotcake_service_cash counts the cash of each returned row
\* once; when no in-scope order carries a bill id, service_bill_rows is
\* empty and hotcake_service_cash is 0.
C30_ServiceRowsOnce ==
    Done =>
        LET rows == result[1].service_bill_rows
            sv == args.bills.service
            ids == {sv[i].bill_id : i \in 1..Len(sv)}
        IN /\ Len(rows) <= Len(sv)
           /\ \A b \in ids \cup InScopeBillIds :
                 IF b \in InScopeBillIds
                 THEN /\ RowsOfBill(rows, b) = RowsOfBill(sv, b)
                      /\ CashOfBill(rows, b) = CashOfBill(sv, b)
                 ELSE RowsOfBill(rows, b) = 0
           /\ result[1].totals.hotcake_service_cash = FieldSum(rows, "cash")
           /\ InScopeBillIds = {}
                 => /\ rows = <<>>
                    /\ result[1].totals.hotcake_service_cash = 0

\* two in-scope orders carry the bill of the one service row, which is of
\* another store: the row is returned once and its cash counted once
C30_Witness ==
    /\ Done
    /\ Len(args.orders) = 2
    /\ InScope(args.orders[1])
    /\ InScope(args.orders[2])
    /\ args.orders[1].bill_id = args.orders[2].bill_id
    /\ Len(args.bills.service) = 1
    /\ args.bills.service[1].bill_id = args.orders[1].bill_id
    /\ StoreKey(args.bills.service[1].store) # StoreKey(args.store)
    /\ Len(result[1].service_bill_rows) = 1
    /\ result[1].totals.hotcake_service_cash = args.bills.service[1].cash
    /\ args.bills.service[1].cash > 0

====
